---- MODULE Spec2Model ----
(***************************************************************************)
(* A model of the text core of the YouTube story generator:                *)
(*   - services/prompts.py            prompt-variable injection            *)
(*   - services/subtitles_cleaner.py  subtitle cleaning and deduplication  *)
(*   - services/multipass_pipeline.py JSON extraction and the five-stage   *)
(*                                    orchestrator                         *)
(* A text is a sequence of one-character strings, so that the regular      *)
(* expressions and string methods of the source are computed character by  *)
(* character, as Python computes them.                                     *)
(***************************************************************************)
EXTENDS Integers, Sequences, FiniteSets, TLC

VARIABLES
    \* services/prompts.py: the text the injectors are applied to in sequence
    prompt_text,    \* the text argument of the next call, result of the last
    prev_text,      \* the text before the last call
    base_text,      \* the text before the last two calls
    last_op,        \* the last call: "none", "story_core", "subtitles", "fill"
    last_value,     \* the value passed by the last call
    prev_op,        \* the call before the last
    prev_value,     \* the value passed by the call before the last
    error,          \* the error the last call raised, "none" when it returned
    n_calls,        \* the number of calls made
    \* collapse_consecutive_repeated_phrases: the locals of one call
    phrase_text,    \* the text the call was given
    tokens,         \* the words kept so far, in their original spelling
    norm_tokens,    \* the same words normalized for comparison
    period,         \* the repeat window of the for loop
    scan_i,         \* the cursor i of the while loop
    collapse_pc,    \* "call", "for", "while" or "returned"
    collapse_result,\* the text the call returned
    \* vtt_to_clean_text: one subtitle track and what the cleaner made of it
    vtt,            \* the raw track
    max_chars,      \* the configured MAX_SUBTITLE_CHARS
    deduplicated_lines, \* the lines kept by the line-level deduplication
    clean_text,     \* the cleaned text
    clean_stats,    \* the statistics returned with return_stats=True
    reclean_text,   \* the cleaned text given to the cleaner once more
    clean_pc,       \* "raw", "cleaned" or "recleaned"; "raised" when the
                    \* caller failed to unpack what the cleaner returned
    \* extract_json_from_text: one response and what was extracted from it
    response,       \* the text the extraction was given
    json_text,      \* the text it returned
    json_error,     \* "none", or the ValueError it raised
    json_pc,        \* "response" or "extracted"
    \* run_multipass: one run of the five-stage orchestrator
    stage,          \* the stage whose output is awaited, 0..4
    attempt,        \* "first", or "repair" after an unparseable response
    first_response, \* the unparseable response that the repair request carries
    requests,       \* the generate_text calls made so far, in order: the
                    \* stage and the attempt of each
    last_prompt,    \* the response quoted by the prompt of the latest call
    results,        \* the results record under construction
    pass3_result,   \* the slide sequence as stage 3 returned it
    returned,       \* the record handed to the caller, JNull until then
    pipe_error,     \* "none", or the class of the exception the run raised
    pipe_cause,     \* "none", or what raised it: "generate_text", "llm_json",
                    \* "contract" or "repairs"
    pipe_pc,        \* "running", "returned" or "raised"
    repaired_response, \* the response to the repair request of the stage when
                    \* it did not extract or parse, else empty
    stack_frames,   \* the frames of the interpreter's stack that are in use
                    \* while llm_json runs, its own included
    \* fetch_and_clean_subtitles: one video, its cache directory, and the
    \* calls that the sessions of the application make for it, each session
    \* in its own thread
    video_subtitles,     \* the languages of the video's manual subtitles
    video_auto_captions, \* the languages of its automatic captions
    served,         \* what the track of each language holds: "text", "header", "empty"
    cache_raw,      \* the cache file raw.vtt of the video
    cache_clean,    \* the cache file clean.txt of the video
    tmp_files,      \* the .vtt files in the tmp directory of the video
    open_sessions,  \* the sessions that are open
    fetch_pc,       \* of each session: "idle", or the step its call is at
    fetch_call,     \* of each session: the arguments of its last call
    clean_cached,   \* of each session: the local clean_cached of line 40
    raw_vtt,        \* of each session: the raw track its call holds
    fetch_returned, \* of each session: what its last call returned, JNull
                    \* while it runs and when it raised
    fetch_error,    \* of each session: "none", or the class of the exception
    fetch_cause,    \* of each session: "none", or the condition that raised it
    fetched,        \* of each session: whether its last call asked YouTube
    known_success,  \* of each session: last_success as its last call began
    last_success,   \* the raw track and the clean text of the last call that
                    \* returned, JNull when none has
    n_fetch_calls,  \* the number of calls made
    \* generate_story_core: one call
    template_file,  \* the story-core prompt file
    clean_subtitles,\* the clean subtitles the call was given
    core_requests,  \* the prompts given to generate_text, in order
    core_returned,  \* the pair the call returned, JNull until then
    core_error,     \* "none", or the class of the exception the call raised
    core_cause,     \* "none", or what raised it: "load_prompt_file",
                    \* "fill_story_core_prompt" or "generate_text"
    core_pc         \* "called", "returned" or "raised"

injectVars == <<prompt_text, prev_text, base_text, last_op, last_value,
                prev_op, prev_value, error, n_calls>>

collapseVars == <<phrase_text, tokens, norm_tokens, period, scan_i,
                  collapse_pc, collapse_result>>

cleanVars == <<vtt, max_chars, deduplicated_lines, clean_text, clean_stats,
               reclean_text, clean_pc>>

jsonVars == <<response, json_text, json_error, json_pc>>

pipeVars == <<stage, attempt, first_response, requests, last_prompt, results, pass3_result,
              returned, pipe_error, pipe_cause, pipe_pc, repaired_response, stack_frames>>

fetchVars == <<video_subtitles, video_auto_captions, served, cache_raw, cache_clean,
               tmp_files, open_sessions, fetch_pc, fetch_call, clean_cached, raw_vtt, fetch_returned,
               fetch_error, fetch_cause, fetched, known_success, last_success,
               n_fetch_calls>>

coreVars == <<template_file, clean_subtitles, core_requests, core_returned,
              core_error, core_cause, core_pc>>

vars == <<injectVars, collapseVars, cleanVars, jsonVars, pipeVars, fetchVars, coreVars>>

\* the values of the variables of a part of the program that is not running
IdleInject ==
    /\ prompt_text = <<>>
    /\ prev_text = <<>>
    /\ base_text = <<>>
    /\ last_op = "none"
    /\ last_value = <<>>
    /\ prev_op = "none"
    /\ prev_value = <<>>
    /\ error = "none"
    /\ n_calls = 0

IdleCollapse ==
    /\ phrase_text = <<>>
    /\ tokens = <<>>
    /\ norm_tokens = <<>>
    /\ period = 0
    /\ scan_i = 0
    /\ collapse_pc = "idle"
    /\ collapse_result = <<>>

IdleClean ==
    /\ vtt = <<>>
    /\ max_chars = 0
    /\ deduplicated_lines = <<>>
    /\ clean_text = <<>>
    /\ clean_stats = [clean_chars_before_dedupe |-> 0,
                      clean_chars_after_dedupe |-> 0,
                      dedupe_ratio |-> [num |-> 1, den |-> 1],
                      removed_chars |-> 0]
    /\ reclean_text = <<>>
    /\ clean_pc = "idle"

IdleJson ==
    /\ response = <<>>
    /\ json_text = <<>>
    /\ json_error = "none"
    /\ json_pc = "idle"

IdlePipe ==
    /\ stage = 0
    /\ attempt = "first"
    /\ first_response = <<>>
    /\ requests = <<>>
    /\ last_prompt = <<>>
    /\ results = [kind |-> "dict", keys |-> <<>>, vals |-> <<>>]
    /\ pass3_result = <<>>
    /\ returned = [kind |-> "null"]
    /\ pipe_error = "none"
    /\ pipe_cause = "none"
    /\ pipe_pc = "idle"
    /\ repaired_response = <<>>
    /\ stack_frames = 0

\* a file that does not exist, and a file holding a text
NoFile == [exists |-> FALSE, text |-> <<>>]
File(text) == [exists |-> TRUE, text |-> text]

\* the sessions of the application that call fetch_and_clean_subtitles
Sessions == {"A", "B"}

\* no session has made a call
NoCalls ==
    /\ fetch_pc = [s \in Sessions |-> "idle"]
    /\ fetch_call = [s \in Sessions |-> [kind |-> "null"]]
    /\ clean_cached = [s \in Sessions |-> <<>>]
    /\ raw_vtt = [s \in Sessions |-> <<>>]
    /\ fetch_returned = [s \in Sessions |-> [kind |-> "null"]]
    /\ fetch_error = [s \in Sessions |-> "none"]
    /\ fetch_cause = [s \in Sessions |-> "none"]
    /\ fetched = [s \in Sessions |-> FALSE]
    /\ known_success = [s \in Sessions |-> [kind |-> "null"]]
    /\ last_success = [kind |-> "null"]
    /\ n_fetch_calls = 0

IdleFetch ==
    /\ video_subtitles = {}
    /\ video_auto_captions = {}
    /\ served = [lang \in {"en", "uk"} |-> "text"]
    /\ cache_raw = NoFile
    /\ cache_clean = NoFile
    /\ tmp_files = {}
    /\ open_sessions = {}
    /\ NoCalls

IdleCore ==
    /\ template_file = NoFile
    /\ clean_subtitles = <<>>
    /\ core_requests = <<>>
    /\ core_returned = [kind |-> "null"]
    /\ core_error = "none"
    /\ core_cause = "none"
    /\ core_pc = "idle"

----------------------------------------------------------------------------
(* Characters and Python's str methods                                     *)

\* the grave accent U+0060, which a TLA+ string cannot hold: the one character
\* of a text that is written as a name
GRAVE == "grave"

\* the characters by code point, 0..255: chr(n) is CodePoints[n + 1]; a
\* character that has no printable form is written by its hexadecimal code
CodePoints ==
  <<
     "x00", "x01", "x02", "x03", "x04", "x05", "x06", "x07",
     "x08", "\t", "\n", "x0b", "x0c", "\r", "x0e", "x0f",
     "x10", "x11", "x12", "x13", "x14", "x15", "x16", "x17",
     "x18", "x19", "x1a", "x1b", "x1c", "x1d", "x1e", "x1f",
     " ", "!", "\"", "#", "$", "%", "&", "'",
     "(", ")", "*", "+", ",", "-", ".", "/",
     "0", "1", "2", "3", "4", "5", "6", "7",
     "8", "9", ":", ";", "<", "=", ">", "?",
     "@", "A", "B", "C", "D", "E", "F", "G",
     "H", "I", "J", "K", "L", "M", "N", "O",
     "P", "Q", "R", "S", "T", "U", "V", "W",
     "X", "Y", "Z", "[", "\\", "]", "^", "_",
     GRAVE, "a", "b", "c", "d", "e", "f", "g",
     "h", "i", "j", "k", "l", "m", "n", "o",
     "p", "q", "r", "s", "t", "u", "v", "w",
     "x", "y", "z", "{", "|", "}", "~", "x7f",
     "x80", "x81", "x82", "x83", "x84", "x85", "x86", "x87",
     "x88", "x89", "x8a", "x8b", "x8c", "x8d", "x8e", "x8f",
     "x90", "x91", "x92", "x93", "x94", "x95", "x96", "x97",
     "x98", "x99", "x9a", "x9b", "x9c", "x9d", "x9e", "x9f",
     "xa0", "xa1", "xa2", "xa3", "xa4", "xa5", "xa6", "xa7",
     "xa8", "xa9", "xaa", "xab", "xac", "xad", "xae", "xaf",
     "xb0", "xb1", "xb2", "xb3", "xb4", "xb5", "xb6", "xb7",
     "xb8", "xb9", "xba", "xbb", "xbc", "xbd", "xbe", "xbf",
     "xc0", "xc1", "xc2", "xc3", "xc4", "xc5", "xc6", "xc7",
     "xc8", "xc9", "xca", "xcb", "xcc", "xcd", "xce", "xcf",
     "xd0", "xd1", "xd2", "xd3", "xd4", "xd5", "xd6", "xd7",
     "xd8", "xd9", "xda", "xdb", "xdc", "xdd", "xde", "xdf",
     "xe0", "xe1", "xe2", "xe3", "xe4", "xe5", "xe6", "xe7",
     "xe8", "xe9", "xea", "xeb", "xec", "xed", "xee", "xef",
     "xf0", "xf1", "xf2", "xf3", "xf4", "xf5", "xf6", "xf7",
     "xf8", "xf9", "xfa", "xfb", "xfc", "xfd", "xfe", "xff"
  >>

\* chr(n)
Chr(n) == CodePoints[n + 1]

\* Python's \s and str.isspace, which str.strip and str.split use as well,
\* over the code points 0..255
IsSpace(c) ==
    c \in {"\t", "\n", "x0b", "x0c", "\r", "x1c", "x1d", "x1e", "x1f", " ", "x85", "xa0"}

\* the regular expression class [A-Z]
IsUpper(c) == c \in {"A","B","C","D","E","F","G","H","I","J","K","L","M",
                     "N","O","P","Q","R","S","T","U","V","W","X","Y","Z"}

\* the regular expression class [a-z]
IsLower(c) == c \in {"a","b","c","d","e","f","g","h","i","j","k","l","m",
                     "n","o","p","q","r","s","t","u","v","w","x","y","z"}

\* the regular expression class \d
IsDigit(c) == c \in {"0","1","2","3","4","5","6","7","8","9"}

\* the regular expression class [a-zA-Z0-9_]
IsAsciiWord(c) == IsUpper(c) \/ IsLower(c) \/ IsDigit(c) \/ c = "_"

\* the letters among the code points 128..255, and the capitals among them
LatinLetters ==
    {"xaa", "xb5", "xba"} \cup {Chr(n) : n \in (192..255) \ {215, 247}}
LatinCapitals == {Chr(n) : n \in (192..222) \ {215}}

\* the characters among the code points 128..255 that are numeric
LatinNumerics == {"xb2", "xb3", "xb9", "xbc", "xbd", "xbe"}

\* the regular expression class \w of a str pattern
IsWord(c) == IsAsciiWord(c) \/ c \in LatinLetters \/ c \in LatinNumerics

\* text[off:] and text[:off], off counting the characters before the cut
Drop(text, off) == SubSeq(text, off + 1, Len(text))
Take(text, off) == SubSeq(text, 1, off)

\* text.startswith(w, off)
StartsWithAt(text, w, off) ==
    /\ off >= 0
    /\ off + Len(w) <= Len(text)
    /\ SubSeq(text, off + 1, off + Len(w)) = w

\* text.find(w, off): the least offset >= off at which w occurs, else -1
Find(text, w, off) ==
    LET hits == {k \in off..(Len(text) - Len(w)) : StartsWithAt(text, w, k)}
    IN  IF hits = {} THEN -1
        ELSE CHOOSE k \in hits : \A j \in hits : k <= j

\* w in text
Contains(text, w) == Find(text, w, 0) # -1

\* text.replace(old, new): every non-overlapping occurrence, left to right
RECURSIVE Replace(_, _, _)
Replace(text, old, new) ==
    LET p == Find(text, old, 0)
    IN  IF p = -1 THEN text
        ELSE Take(text, p) \o new \o Replace(Drop(text, p + Len(old)), old, new)

\* the offset after the run of whitespace that starts at off (regex \s*)
SkipSpace(text, off) ==
    LET stops == {k \in off..Len(text) :
                     k = Len(text) \/ ~IsSpace(text[k + 1])}
    IN  CHOOSE k \in stops : \A j \in stops : k <= j

\* text.rstrip()
rstrip(text) ==
    LET keeps == {k \in 0..Len(text) : k = 0 \/ ~IsSpace(text[k])}
    IN  Take(text, CHOOSE k \in keeps : \A j \in keeps : j <= k)

\* text.lstrip()
lstrip(text) == Drop(text, SkipSpace(text, 0))

\* text.strip()
strip(text) == rstrip(lstrip(text))

----------------------------------------------------------------------------
(* services/prompts.py                                                     *)

LBL_STORY_CORE == <<"S","T","O","R","Y","_","C","O","R","E",":">>
LBL_ORIGINAL_STORY == <<"O","R","I","G","I","N","A","L","_","S","T","O","R","Y",":">>
PH_STORY_CORE == <<"{","{","S","T","O","R","Y","_","C","O","R","E","}","}">>
PH_SUBTITLES == <<"{","{","S","U","B","T","I","T","L","E","S","}","}">>
CORE_OBJECTIVE == <<"C","O","R","E"," ","O","B","J","E","C","T","I","V","E">>
INPUT_VARIABLES == <<"I","N","P","U","T"," ","V","A","R","I","A","B","L","E","S">>

\* the value of a run of digits in the given base: int(digits, base)
RECURSIVE NumberIn(_, _)
NumberIn(digits, base) ==
    IF digits = <<>> THEN 0
    ELSE NumberIn(Take(digits, Len(digits) - 1), base) * base
         + (CHOOSE d \in 0..9 : Chr(48 + d) = digits[Len(digits)])

IsOctal(c) == c \in {"0","1","2","3","4","5","6","7"}

\* str.isidentifier, over the code points 0..255
IsIdentifier(name) ==
    /\ name # <<>>
    /\ ~IsDigit(name[1])
    /\ name[1] # "xb7"
    /\ \A k \in 1..Len(name) :
           IsAsciiWord(name[k]) \/ name[k] \in LatinLetters \/ name[k] = "xb7"

\* int(name) for the name of \g<name>, -1 where int raises ValueError or the
\* number is negative: int strips white space (not the separators
\* \x1c..\x1f), reads a sign, and lets one underscore stand between two digits
GroupIndex(name) ==
    LET blank(c) == IsSpace(c) /\ c \notin {"x1c", "x1d", "x1e", "x1f"}
        inner == {k \in 1..Len(name) : ~blank(name[k])}
        s == IF inner = {} THEN <<>>
             ELSE SubSeq(name, CHOOSE k \in inner : \A j \in inner : k <= j,
                               CHOOSE k \in inner : \A j \in inner : j <= k)
        signed == s # <<>> /\ s[1] \in {"+", "-"}
        body == IF signed THEN Drop(s, 1) ELSE s
        valid == /\ body # <<>>
                 /\ IsDigit(body[1])
                 /\ IsDigit(body[Len(body)])
                 /\ \A k \in 1..Len(body) :
                        \/ IsDigit(body[k])
                        \/ body[k] = "_" /\ IsDigit(body[k - 1]) /\ IsDigit(body[k + 1])
        value == NumberIn(SelectSeq(body, IsDigit), 10)
    IN  IF ~valid THEN -1
        ELSE IF signed /\ s[1] = "-" /\ value > 0 THEN -1
        ELSE value

\* the characters an escape \a \b \f \n \r \t \v \\ of a replacement template
\* stands for
TemplateEscapes ==
    [c \in {"a", "b", "f", "n", "r", "t", "v", "\\"} |->
        CASE c = "a" -> Chr(7)  [] c = "b" -> Chr(8)  [] c = "f" -> Chr(12)
          [] c = "n" -> "\n"    [] c = "r" -> Chr(13) [] c = "t" -> "\t"
          [] c = "v" -> Chr(11) [] c = "\\" -> "\\"]

\* one item of a replacement template of re.sub, read at offset off as
\* sre_parse.parse_template reads it: a literal text, a reference to a group
\* of the match, or an error; next is the offset after the item, groups the
\* number of groups of the pattern. A name that is no identifier is read by
\* int(), as sre_parse of Python 3.11 does (with a DeprecationWarning for a
\* name that is not a run of ASCII digits)
TemplateItem(template, off, groups) ==
    LET at(k) == IF off + k <= Len(template) THEN template[off + k] ELSE ""
        Literal(text, next) == [kind |-> "literal", text |-> text, next |-> next]
        Group(n, next) ==
            IF n <= groups THEN [kind |-> "group", group |-> n, next |-> next]
            ELSE [kind |-> "re.error", next |-> next]
        Failure(cls) == [kind |-> cls, next |-> Len(template)]
        close == Find(template, <<">">>, off + 3)
        name == SubSeq(template, off + 4, close)
        c == at(2)
    IN  IF at(1) # "\\" THEN Literal(<<at(1)>>, off + 1)
        ELSE IF c = "" THEN Failure("re.error")
        ELSE IF c = "g"
            THEN IF at(3) # "<" \/ close = -1 \/ name = <<>> THEN Failure("re.error")
                 ELSE IF IsIdentifier(name) THEN Failure("IndexError")
                 ELSE IF GroupIndex(name) = -1 THEN Failure("re.error")
                 ELSE Group(GroupIndex(name), close + 1)
        ELSE IF c = "0"
            THEN IF IsOctal(at(3)) /\ IsOctal(at(4))
                     THEN Literal(<<Chr(NumberIn(<<at(3), at(4)>>, 8))>>, off + 4)
                 ELSE IF IsOctal(at(3))
                     THEN Literal(<<Chr(NumberIn(<<at(3)>>, 8))>>, off + 3)
                 ELSE Literal(<<Chr(0)>>, off + 2)
        ELSE IF IsDigit(c)
            THEN IF IsDigit(at(3)) /\ IsOctal(c) /\ IsOctal(at(3)) /\ IsOctal(at(4))
                     THEN IF NumberIn(<<c, at(3), at(4)>>, 8) > 255 THEN Failure("re.error")
                          ELSE Literal(<<Chr(NumberIn(<<c, at(3), at(4)>>, 8))>>, off + 4)
                 ELSE IF IsDigit(at(3)) THEN Group(NumberIn(<<c, at(3)>>, 10), off + 3)
                 ELSE Group(NumberIn(<<c>>, 10), off + 2)
        ELSE IF c \in DOMAIN TemplateEscapes THEN Literal(<<TemplateEscapes[c]>>, off + 2)
        ELSE IF IsUpper(c) \/ IsLower(c) THEN Failure("re.error")
        ELSE Literal(<<"\\", c>>, off + 2)

\* the exception re.sub raises for a replacement template, "none" when the
\* template is well formed; re.sub reads the template before it searches
RECURSIVE TemplateError(_, _, _)
TemplateError(template, off, groups) ==
    LET item == TemplateItem(template, off, groups)
    IN  IF off >= Len(template) THEN "none"
        ELSE IF item.kind \notin {"literal", "group"} THEN item.kind
        ELSE TemplateError(template, item.next, groups)

\* the text a well-formed replacement template stands for, given the text of
\* the match (matched[1]) and of its groups (matched[n + 1] for group n)
RECURSIVE ExpandTemplate(_, _, _)
ExpandTemplate(template, off, matched) ==
    LET item == TemplateItem(template, off, Len(matched) - 1)
    IN  IF off >= Len(template) THEN <<>>
        ELSE IF item.kind = "group"
            THEN matched[item.group + 1] \o ExpandTemplate(template, item.next, matched)
        ELSE IF item.kind = "literal"
            THEN item.text \o ExpandTemplate(template, item.next, matched)
        ELSE <<>>

\* the f-string "\n{<value>}\n\n"
BracedBlock(value) == <<"\n", "{">> \o value \o <<"}", "\n", "\n">>

\* the lookahead alternative \n[A-Z][A-Z\s]{3,}: at offset off
HeaderAhead(text, off) ==
    /\ off + 2 <= Len(text)
    /\ text[off + 1] = "\n"
    /\ IsUpper(text[off + 2])
    /\ \E k \in 3..(Len(text) - off - 3) :
          /\ \A j \in 1..k : IsUpper(text[off + 2 + j]) \/ IsSpace(text[off + 2 + j])
          /\ text[off + 3 + k] = ":"

\* the lookahead alternative $ under re.MULTILINE at offset off
EndOfLine(text, off) == off = Len(text) \/ text[off + 1] = "\n"

\* the end of the lazy group (.*?) under re.DOTALL: the first offset >= off
\* where the lookahead (?=\n[A-Z][A-Z\s]{3,}:|$) succeeds
BlockEnd(text, off) ==
    LET ends == {k \in off..Len(text) : HeaderAhead(text, k) \/ EndOfLine(text, k)}
    IN  CHOOSE k \in ends : \A j \in ends : k <= j

\* re.sub(r'(LABEL:\s*)(.*?)(?=\n[A-Z][A-Z\s]{3,}:|$)', repl, text,
\*        flags=re.MULTILINE | re.DOTALL) on text[off:]; repl is group 1
\* (right-stripped unless keep_space) followed by tail
RECURSIVE SubLabeledBlock(_, _, _, _, _)
SubLabeledBlock(text, label, keep_space, tail, off) ==
    LET p == Find(text, label, off)
        q == SkipSpace(text, p + Len(label))
        group1 == SubSeq(text, p + 1, q)
        prefix == IF keep_space THEN group1 ELSE rstrip(group1)
    IN  IF p = -1 THEN Drop(text, off)
        ELSE SubSeq(text, off + 1, p) \o prefix \o tail
             \o SubLabeledBlock(text, label, keep_space, tail, BlockEnd(text, q))

\* the offset at which (\nCORE OBJECTIVE\b) matches, searching from off; -1 if none
FindObjective(text, off) ==
    LET w == <<"\n">> \o CORE_OBJECTIVE
        hits == {k \in off..(Len(text) - Len(w)) :
                    /\ StartsWithAt(text, w, k)
                    /\ (k + Len(w) = Len(text) \/ ~IsWord(text[k + Len(w) + 1]))}
    IN  IF hits = {} THEN -1
        ELSE CHOOSE k \in hits : \A j \in hits : k <= j

\* the end of group 2 in (ORIGINAL_STORY:\s*)(.*?)(\nCORE OBJECTIVE\b) for the
\* label found at p: \s* is greedy and gives a character back only when no
\* terminator follows the whitespace run; -1 when the pattern does not match
ObjectiveAfterLabel(text, p) ==
    LET lab == p + Len(LBL_ORIGINAL_STORY)
        q == SkipSpace(text, lab)
        r == FindObjective(text, q)
    IN  IF r # -1 THEN r
        ELSE IF q > lab /\ FindObjective(text, q - 1) = q - 1 THEN q - 1
        ELSE -1

\* re.sub(r'(ORIGINAL_STORY:\s*)(.*?)(\nCORE OBJECTIVE\b)', replace_func, text,
\*        flags=re.MULTILINE | re.DOTALL) on text[off:], where replace_func
\* returns f"{prefix}\n{{{value}}}\n\n{suffix}"
RECURSIVE SubOriginalStory(_, _, _)
SubOriginalStory(text, value, off) ==
    LET p == Find(text, LBL_ORIGINAL_STORY, off)
        r == ObjectiveAfterLabel(text, p)
    IN  IF p = -1 \/ r = -1 THEN Drop(text, off)
        ELSE SubSeq(text, off + 1, p) \o LBL_ORIGINAL_STORY \o BracedBlock(value)
             \o CORE_OBJECTIVE
             \o SubOriginalStory(text, value, r + 1 + Len(CORE_OBJECTIVE))

\* the replacement template f"\\1STORY_CORE:\n{{{value}}}\n\n": the value is
\* part of the template, so re.sub reads its backslashes as escapes
AfterInputVariablesTemplate(value) ==
    <<"\\", "1">> \o LBL_STORY_CORE \o BracedBlock(value)

\* re.sub(r'(INPUT VARIABLES[^\n]*\n)', "\\1STORY_CORE:\n{<value>}\n\n", text, count=1)
InsertAfterInputVariables(text, value) ==
    LET p == Find(text, INPUT_VARIABLES, 0)
        nl == Find(text, <<"\n">>, p + Len(INPUT_VARIABLES))
        group1 == SubSeq(text, p + 1, nl + 1)
    IN  IF p = -1 \/ nl = -1 THEN text
        ELSE Take(text, p)
             \o ExpandTemplate(AfterInputVariablesTemplate(value), 0, <<group1, group1>>)
             \o Drop(text, nl + 1)

\* the replacement template f"\nORIGINAL_STORY:\n{{{value}}}\n\n\\1"
BeforeObjectiveTemplate(value) ==
    <<"\n">> \o LBL_ORIGINAL_STORY \o BracedBlock(value) \o <<"\\", "1">>

\* re.sub(r'(\nCORE OBJECTIVE\b)', "\nORIGINAL_STORY:\n{<value>}\n\n\\1", text, count=1)
InsertBeforeObjective(text, value) ==
    LET p == FindObjective(text, 0)
        group1 == <<"\n">> \o CORE_OBJECTIVE
    IN  IF p = -1 THEN text
        ELSE Take(text, p)
             \o ExpandTemplate(BeforeObjectiveTemplate(value), 0, <<group1, group1>>)
             \o Drop(text, p + Len(group1))

\* the replacement template rf"\1\n{{{value}}}\n\n": in the raw string the
\* line ends are the escapes \n, which re.sub turns into line ends
OriginalStoryTemplate(value) ==
    <<"\\", "1", "\\", "n", "{">> \o value \o <<"}", "\\", "n", "\\", "n">>

\* re.sub(r'(ORIGINAL_STORY:\s*)(.*?)(?=\n[A-Z][A-Z\s]{3,}:|$)', template,
\*        text, flags=re.MULTILINE | re.DOTALL) on text[off:], the replacement
\* being a template that is expanded for every match
RECURSIVE SubLabeledBlockTemplate(_, _, _, _)
SubLabeledBlockTemplate(text, label, template, off) ==
    LET p == Find(text, label, off)
        q == SkipSpace(text, p + Len(label))
        r == BlockEnd(text, q)
        matched == <<SubSeq(text, p + 1, r), SubSeq(text, p + 1, q), SubSeq(text, q + 1, r)>>
    IN  IF p = -1 THEN Drop(text, off)
        ELSE SubSeq(text, off + 1, p) \o ExpandTemplate(template, 0, matched)
             \o SubLabeledBlockTemplate(text, label, template, r)

\* not value or not value.strip()
IsBlank(value) == strip(value) = <<>>

inject_story_core_into_prompt(text, story_core) ==
    LET value == rstrip(story_core)
        replaced == SubLabeledBlock(text, LBL_STORY_CORE, FALSE, BracedBlock(value), 0)
    IN  IF IsBlank(story_core) THEN text
        ELSE IF Contains(text, PH_STORY_CORE)
            THEN Replace(text, PH_STORY_CORE, value)
        ELSE IF Contains(text, LBL_STORY_CORE) /\ replaced # text
            THEN replaced
        ELSE IF Contains(text, INPUT_VARIABLES)
            THEN InsertAfterInputVariables(text, value)
        ELSE LBL_STORY_CORE \o BracedBlock(value) \o text

inject_subtitles_into_prompt(text, subtitles) ==
    LET value == rstrip(subtitles)
        result1 == SubOriginalStory(text, value, 0)
        result2 == SubLabeledBlockTemplate(text, LBL_ORIGINAL_STORY,
                                           OriginalStoryTemplate(value), 0)
    IN  IF IsBlank(subtitles) THEN text
        ELSE IF Contains(text, PH_SUBTITLES)
            THEN Replace(text, PH_SUBTITLES, value)
        ELSE IF Contains(text, LBL_ORIGINAL_STORY) /\ result1 # text
            THEN result1
        ELSE IF Contains(text, LBL_ORIGINAL_STORY) /\ result2 # text
            THEN result2
        ELSE IF Contains(text, CORE_OBJECTIVE)
            THEN InsertBeforeObjective(text, value)
        ELSE text \o <<"\n", "\n">> \o LBL_ORIGINAL_STORY
             \o <<"\n", "{">> \o value \o <<"}">>

\* the exception inject_story_core_into_prompt raises, "none" when it returns
inject_story_core_error(text, story_core) ==
    LET value == rstrip(story_core)
        replaced == SubLabeledBlock(text, LBL_STORY_CORE, FALSE, BracedBlock(value), 0)
    IN  IF IsBlank(story_core) \/ Contains(text, PH_STORY_CORE) THEN "none"
        ELSE IF Contains(text, LBL_STORY_CORE) /\ replaced # text THEN "none"
        ELSE IF Contains(text, INPUT_VARIABLES)
            THEN TemplateError(AfterInputVariablesTemplate(value), 0, 1)
        ELSE "none"

\* the exception inject_subtitles_into_prompt raises, "none" when it returns
inject_subtitles_error(text, subtitles) ==
    LET value == rstrip(subtitles)
        result1 == SubOriginalStory(text, value, 0)
        error2 == TemplateError(OriginalStoryTemplate(value), 0, 2)
        result2 == SubLabeledBlockTemplate(text, LBL_ORIGINAL_STORY,
                                           OriginalStoryTemplate(value), 0)
    IN  IF IsBlank(subtitles) \/ Contains(text, PH_SUBTITLES) THEN "none"
        ELSE IF Contains(text, LBL_ORIGINAL_STORY) /\ result1 # text THEN "none"
        ELSE IF Contains(text, LBL_ORIGINAL_STORY) /\ error2 # "none" THEN error2
        ELSE IF Contains(text, LBL_ORIGINAL_STORY) /\ result2 # text THEN "none"
        ELSE IF Contains(text, CORE_OBJECTIVE)
            THEN TemplateError(BeforeObjectiveTemplate(value), 0, 1)
        ELSE "none"

\* the ValueError fill_story_core_prompt raises, "none" when it returns
fill_story_core_error(template, original_story) ==
    IF IsBlank(original_story) THEN "empty_value"
    ELSE IF SubOriginalStory(template, rstrip(original_story), 0) # template THEN "none"
    ELSE IF ~Contains(template, LBL_ORIGINAL_STORY) THEN "missing_label"
    ELSE IF ~Contains(template, CORE_OBJECTIVE) THEN "missing_terminator"
    ELSE "no_block_found"

\* the text fill_story_core_prompt returns when it raises nothing
fill_story_core_prompt(template, original_story) ==
    SubOriginalStory(template, rstrip(original_story), 0)

----------------------------------------------------------------------------
(* The injectors of services/prompts.py applied in sequence: prompt_text is *)
(* the text argument of a call, and every call is made on the text the      *)
(* call before it returned, text = f(text, value). The callers in app.py    *)
(* and generators.py (the guard on an empty text area, the template file    *)
(* read again on every call) are not part of these steps.                   *)

\* what a template starts with
TemplateHeads ==
    {<<>>,
     <<"h","e","l","l","o","\n">>,
     <<"I","N","P","U","T"," ","V","A","R","I","A","B","L","E","S",":","\n">>}

\* the variable site a template holds, if any
TemplateBlocks ==
    {<<>>,
     <<"S","T","O","R","Y","_","C","O","R","E",":","\n","o","l","d">>,
     <<"{","{","S","T","O","R","Y","_","C","O","R","E","}","}">>,
     <<"O","R","I","G","I","N","A","L","_","S","T","O","R","Y",":","\n","o","l","d">>,
     <<"{","{","S","U","B","T","I","T","L","E","S","}","}">>}

\* what follows the site
TemplateTails ==
    {<<>>,
     <<"\n","C","O","R","E"," ","O","B","J","E","C","T","I","V","E","\n","z">>,
     <<"\n","N","E","X","T"," ","P","A","R","T",":","\n","f","o","o">>,
     <<"\n","S","T","O","R","Y","_","C","O","R","E",":"," ","b">>,
     <<"\n","O","R","I","G","I","N","A","L","_","S","T","O","R","Y",":"," ","q">>,
     <<"\n","C","O","R","E"," ","O","B","J","E","C","T","I","V","E","S",":","\n","z">>}

\* the values a call passes: one line, two lines, blank, one holding a label,
\* a file path with a backslash, and one whose backslash precedes a digit
Values ==
    {<<"x">>,
     <<"a","\n","b">>,
     <<" ">>,
     <<"S","T","O","R","Y","_","C","O","R","E",":"," ","y">>,
     <<"C",":","\\","p">>,
     <<"a","\\","1">>}

\* the templates the first call may be given
Templates == {h \o b \o t : h \in TemplateHeads, b \in TemplateBlocks, t \in TemplateTails}

\* the calls made in sequence on one text
MaxCalls == 2

InitInject ==
    /\ prompt_text \in Templates
    /\ prev_text = <<>>
    /\ base_text = <<>>
    /\ last_op = "none"
    /\ last_value = <<>>
    /\ prev_op = "none"
    /\ prev_value = <<>>
    /\ error = "none"
    /\ n_calls = 0
    /\ IdleCollapse
    /\ IdleClean
    /\ IdleJson
    /\ IdlePipe
    /\ IdleFetch
    /\ IdleCore

\* what every call records: the argument and result of the call before it
Recorded(op, value) ==
    /\ prev_text' = prompt_text
    /\ base_text' = prev_text
    /\ last_op' = op
    /\ last_value' = value
    /\ prev_op' = last_op
    /\ prev_value' = last_value
    /\ n_calls' = n_calls + 1
    /\ UNCHANGED <<collapseVars, cleanVars, jsonVars, pipeVars, fetchVars, coreVars>>

\* prompt_text = inject_story_core_into_prompt(prompt_text, value)
InjectStoryCore ==
    \E value \in Values :
        /\ n_calls < MaxCalls
        /\ error' = inject_story_core_error(prompt_text, value)
        /\ prompt_text' = IF error' = "none"
                          THEN inject_story_core_into_prompt(prompt_text, value)
                          ELSE prompt_text
        /\ Recorded("story_core", value)

\* prompt_text = inject_subtitles_into_prompt(prompt_text, value)
InjectSubtitles ==
    \E value \in Values :
        /\ n_calls < MaxCalls
        /\ error' = inject_subtitles_error(prompt_text, value)
        /\ prompt_text' = IF error' = "none"
                          THEN inject_subtitles_into_prompt(prompt_text, value)
                          ELSE prompt_text
        /\ Recorded("subtitles", value)

\* prompt_text = fill_story_core_prompt(prompt_text, value), or the ValueError
\* the function raises, which leaves the text as it was
FillStoryCore ==
    \E value \in Values :
        /\ n_calls < MaxCalls
        /\ error' = fill_story_core_error(prompt_text, value)
        /\ prompt_text' = IF error' = "none"
                          THEN fill_story_core_prompt(prompt_text, value)
                          ELSE prompt_text
        /\ Recorded("fill", value)

NextInject == InjectStoryCore \/ InjectSubtitles \/ FillStoryCore

SpecInject == InitInject /\ [][NextInject]_vars

----------------------------------------------------------------------------
(* Claims about injection                                                  *)

\* text.count(w): the non-overlapping occurrences of w
RECURSIVE CountOccurrences(_, _)
CountOccurrences(text, w) ==
    LET p == Find(text, w, 0)
    IN  IF p = -1 THEN 0 ELSE 1 + CountOccurrences(Drop(text, p + Len(w)), w)

IsInjection(op) == op \in {"story_core", "subtitles"}
LabelOf(op) == IF op = "story_core" THEN LBL_STORY_CORE ELSE LBL_ORIGINAL_STORY
PlaceholderOf(op) == IF op = "story_core" THEN PH_STORY_CORE ELSE PH_SUBTITLES
Inject(op, text, value) ==
    IF op = "story_core" THEN inject_story_core_into_prompt(text, value)
    ELSE inject_subtitles_into_prompt(text, value)

\* the last two calls were the same injector with non-blank values
TwoInjections ==
    /\ n_calls >= 2
    /\ IsInjection(last_op)
    /\ prev_op = last_op
    /\ ~IsBlank(last_value)
    /\ ~IsBlank(prev_value)

\* C1: injection is idempotent: injecting the same non-empty value a second
\* time with the same injector leaves the text as the first injection left it
C1_InjectionIdempotent ==
    (TwoInjections /\ prev_value = last_value) => prompt_text = prev_text

\* C2: no duplication: whenever the template held at least one labeled block
\* for the injector's label, the returned text holds exactly one, for every
\* value and after any number of injections
C2_ExactlyOneBlock ==
    (IsInjection(last_op) /\ CountOccurrences(prev_text, LabelOf(last_op)) >= 1)
        => CountOccurrences(prompt_text, LabelOf(last_op)) = 1

\* C3: re-injection with a changed value replaces in place: injecting v1 and
\* then v2 into a template with a labeled block gives what injecting v2 alone
\* gives
C3_ReinjectionReplacesInPlace ==
    (/\ TwoInjections
     /\ prev_value # last_value
     /\ Contains(base_text, LabelOf(last_op)))
        => prompt_text = Inject(last_op, base_text, last_value)

\* a line "CORE OBJECTIVE" that follows the first ORIGINAL_STORY: label
HasTerminator(text) ==
    /\ Contains(text, LBL_ORIGINAL_STORY)
    /\ FindObjective(text, Find(text, LBL_ORIGINAL_STORY, 0) + Len(LBL_ORIGINAL_STORY)) # -1

\* C10: the strict fill returns no text for a template it cannot fill and the
\* error names what is missing: the label when ORIGINAL_STORY: is absent, the
\* terminator when the label is there and no CORE OBJECTIVE line ends its block
C10_StrictFillNamesMissingElement ==
    (last_op = "fill" /\ ~IsBlank(last_value)) =>
        /\ ~Contains(prev_text, LBL_ORIGINAL_STORY) => error = "missing_label"
        /\ (Contains(prev_text, LBL_ORIGINAL_STORY) /\ ~HasTerminator(prev_text))
               => error = "missing_terminator"
        /\ error # "none" => prompt_text = prev_text

\* C13: the general-purpose injectors never raise: whatever the template and
\* the value, a call of inject_story_core_into_prompt or of
\* inject_subtitles_into_prompt returns a text
C13_InjectorsNeverRaise ==
    IsInjection(last_op) => error = "none"

\* C14: filling is a projection: when a template with the ORIGINAL_STORY:
\* label and its CORE OBJECTIVE terminator was filled with a non-empty value,
\* filling the result with the same value succeeds and returns the same text
C14_FillIsProjection ==
    (/\ n_calls >= 2
     /\ last_op = "fill"
     /\ prev_op = "fill"
     /\ prev_value = last_value
     /\ ~IsBlank(last_value)
     /\ HasTerminator(base_text)
     /\ fill_story_core_error(base_text, prev_value) = "none")
        => /\ error = "none"
           /\ prompt_text = prev_text

----------------------------------------------------------------------------
(* services/subtitles_cleaner.py: toks and phrase-level deduplication    *)

UPPERCASE == <<"A","B","C","D","E","F","G","H","I","J","K","L","M",
               "N","O","P","Q","R","S","T","U","V","W","X","Y","Z">>
LOWERCASE == <<"a","b","c","d","e","f","g","h","i","j","k","l","m",
               "n","o","p","q","r","s","t","u","v","w","x","y","z">>

\* str.lower() of one character and of a text
LowerChar(c) ==
    IF IsUpper(c) THEN LOWERCASE[CHOOSE i \in 1..26 : UPPERCASE[i] = c]
    ELSE IF c \in LatinCapitals
    THEN Chr(32 + CHOOSE n \in 192..222 : Chr(n) = c)
    ELSE c
lower(text) == [i \in 1..Len(text) |-> LowerChar(text[i])]

\* the class [.,!?;:()\[\]{}"\'"] of normalize_token
IsEdgePunct(c) ==
    c \in {".", ",", "!", "?", ";", ":", "(", ")", "[", "]", "{", "}", "\"", "'"}

\* the first argument of the replace call of line 27 as the file spells it:
\* the text between its first two apostrophes that are followed by a third
QUOTE_CALL_TEXT == <<",", " ", "\"", "'", "\"", ")", ".", "r", "e", "p", "l", "a", "c", "e", "(">>

\* normalize_token: lowercase, strip the punctuation at both ends, then the
\* replace calls of lines 26-27: those of line 26 put a double quote where
\* one is and leave the text as it is, the one of line 27 puts an apostrophe
\* for QUOTE_CALL_TEXT. The $ of line 23 stands at the end of the text and
\* also before a newline that ends it: the punctuation before such a newline
\* is stripped and the newline stays
normalize_token(token) ==
    LET low == lower(token)
        starts == {k \in 0..Len(low) : k = Len(low) \/ ~IsEdgePunct(low[k + 1])}
        from == CHOOSE k \in starts : \A j \in starts : k <= j
        rest == Drop(low, from)
        last == IF rest # <<>> /\ rest[Len(rest)] = "\n" THEN <<"\n">> ELSE <<>>
        body == Take(rest, Len(rest) - Len(last))
        ends == {k \in 0..Len(body) : k = 0 \/ ~IsEdgePunct(body[k])}
        stripped == Take(body, CHOOSE k \in ends : \A j \in ends : j <= k) \o last
    IN  CHOOSE replaced \in {Replace(quoted, QUOTE_CALL_TEXT, <<"'">>) : quoted \in {stripped}} : TRUE

\* re.sub(r'[ \t]+', ' ', text) and re.sub(r' +', ' ', text): each run of the
\* characters of class becomes one space
CollapseRuns(text, class) ==
    LET first == SelectSeq([k \in 1..Len(text) |-> k],
                           LAMBDA k : \/ text[k] \notin class
                                      \/ k = 1
                                      \/ text[k - 1] \notin class)
    IN  [n \in 1..Len(first) |->
            IF text[first[n]] \in class THEN " " ELSE text[first[n]]]

\* text.split(): the maximal runs of non-whitespace characters
split(text) ==
    LET starts == SelectSeq([k \in 1..Len(text) |-> k],
                            LAMBDA k : /\ ~IsSpace(text[k])
                                       /\ (k = 1 \/ IsSpace(text[k - 1])))
        ends == SelectSeq([k \in 1..Len(text) |-> k],
                          LAMBDA k : /\ ~IsSpace(text[k])
                                     /\ (k = Len(text) \/ IsSpace(text[k + 1])))
    IN  [n \in 1..Len(starts) |-> SubSeq(text, starts[n], ends[n])]

\* sep.join(parts)
RECURSIVE join(_, _)
join(sep, parts) ==
    IF parts = <<>> THEN <<>>
    ELSE IF Len(parts) = 1 THEN parts[1]
    ELSE parts[1] \o sep \o join(sep, Tail(parts))

\* a variant of the deletion that starts one element early, so that the last
\* element of the block before the slice goes and the last of the slice stays
DeleteSliceFromBlockEnd(xs, from, to) == Take(xs, from - 1) \o Drop(xs, to - 1)

\* del xs[from:to]
DeleteSlice(xs, from, to) == Take(xs, from) \o Drop(xs, to)

\* the longest and the shortest repeat window of the period loop, range(18, 2, -1)
MAX_PERIOD == 18
MIN_PERIOD == 3

\* the shortest token list that is scanned at all
MIN_TOKENS == 6

\* norms[i:i+per] == norms[j:j+per]
SameBlock(norms, i, j, per) ==
    SubSeq(norms, i + 1, i + per) = SubSeq(norms, j + 1, j + per)

\* a variant of the inner while loop that never runs: j stays where it
\* started and the slice to delete is empty
RepeatEndAtStart(norms, i, j, per) == j

\* the inner while loop: j after it has run over every consecutive repeat of
\* the block at i
RECURSIVE RepeatEnd(_, _, _, _)
RepeatEnd(norms, i, j, per) ==
    IF j + per <= Len(norms) /\ SameBlock(norms, j, i, per)
    THEN RepeatEnd(norms, i, j + per, per)
    ELSE j

\* the while loop of one period from cursor i; toks and norms are
\* cut together and are returned as a pair
RECURSIVE ScanPeriod(_, _, _, _)
ScanPeriod(toks, norms, per, i) ==
    IF ~(i + 2 * per <= Len(toks)) THEN <<toks, norms>>
    ELSE IF SameBlock(norms, i, i + per, per)
        THEN LET j == RepeatEnd(norms, i, i + per, per)
             IN  ScanPeriod(DeleteSlice(toks, i + per, j),
                            DeleteSlice(norms, i + per, j), per, i)
    ELSE ScanPeriod(toks, norms, per, i + 1)

\* the for loop over the periods, from the given one down to MIN_PERIOD
RECURSIVE ScanPeriods(_, _, _)
ScanPeriods(toks, norms, per) ==
    IF per < MIN_PERIOD THEN <<toks, norms>>
    ELSE IF per > Len(toks) \div 2
        THEN ScanPeriods(toks, norms, per - 1)
    ELSE LET scanned == ScanPeriod(toks, norms, per, 0)
         IN  ScanPeriods(scanned[1], scanned[2], per - 1)

\* the token list after the scan of every period
CollapsedTokens(toks) ==
    ScanPeriods(toks, [k \in 1..Len(toks) |-> normalize_token(toks[k])],
                MAX_PERIOD)[1]

collapse_consecutive_repeated_phrases(text) ==
    LET spaced == CollapseRuns(text, {" ", "\t"})
        toks == split(spaced)
    IN  IF text = <<>> THEN text
        ELSE IF Len(toks) < MIN_TOKENS THEN spaced
        ELSE CollapseRuns(join(<<" ">>, CollapsedTokens(toks)), {" "})

----------------------------------------------------------------------------
(* services/subtitles_cleaner.py: vtt_to_clean_text                        *)

WEBVTT == <<"W","E","B","V","T","T">>
NOTE == <<"N","O","T","E">>
STYLE == <<"S","T","Y","L","E">>
ARROW == <<"-","-",">">>

\* core/config.py: the safety cap on the clean text
MAX_SUBTITLE_CHARS == 200000

\* text.split('\n')
RECURSIVE SplitLines(_)
SplitLines(text) ==
    LET p == Find(text, <<"\n">>, 0)
    IN  IF p = -1 THEN <<text>>
        ELSE <<Take(text, p)>> \o SplitLines(Drop(text, p + 1))

\* \d{2}:\d{2}:\d{2}[.,]\d{3} at offset off
TimeAt(line, off) ==
    /\ off + 12 <= Len(line)
    /\ \A k \in {1, 2, 4, 5, 7, 8, 10, 11, 12} : IsDigit(line[off + k])
    /\ line[off + 3] = ":"
    /\ line[off + 6] = ":"
    /\ line[off + 9] \in {".", ","}

\* re.match(r'^\d{2}:\d{2}:\d{2}[.,]\d{3}\s*-->\s*\d{2}:\d{2}:\d{2}[.,]\d{3}', line)
IsTimestamp(line) ==
    /\ TimeAt(line, 0)
    /\ StartsWithAt(line, ARROW, SkipSpace(line, 12))
    /\ TimeAt(line, SkipSpace(line, SkipSpace(line, 12) + 3))

\* re.match(r'^\d+$', line)
IsCueNumber(line) == line # <<>> /\ \A k \in 1..Len(line) : IsDigit(line[k])

\* re.sub(r'<[^>]+>', '', line)
RECURSIVE RemoveTags(_)
RemoveTags(line) ==
    LET opens == {k \in 0..(Len(line) - 1) :
                     /\ line[k + 1] = "<"
                     /\ Find(line, <<">">>, k + 1) > k + 1}
        p == CHOOSE k \in opens : \A j \in opens : k <= j
    IN  IF opens = {} THEN line
        ELSE Take(line, p) \o RemoveTags(Drop(line, Find(line, <<">">>, p + 1) + 1))

\* re.sub(r'^\S+:\s*', '', line): \S+ is greedy, so the prefix ends at the
\* last colon of the first run of non-space characters
RemoveCueSettings(line) ==
    LET stops == {k \in 0..Len(line) : k = Len(line) \/ IsSpace(line[k + 1])}
        run == CHOOSE k \in stops : \A j \in stops : k <= j
        colons == {k \in 2..run : line[k] = ":"}
        last == CHOOSE k \in colons : \A j \in colons : j <= k
    IN  IF colons = {} THEN line ELSE Drop(line, SkipSpace(line, last))

\* the first loop: the lines that are kept, cleaned
RECURSIVE CleanLines(_)
CleanLines(lines) ==
    IF lines = <<>> THEN <<>>
    ELSE LET line == Head(lines)
             stripped == strip(line)
             cleaned == strip(RemoveCueSettings(RemoveTags(line)))
         IN  IF \/ StartsWithAt(stripped, WEBVTT, 0)
                \/ stripped = <<>>
                \/ IsTimestamp(line)
                \/ IsCueNumber(stripped)
                \/ StartsWithAt(stripped, NOTE, 0)
                \/ StartsWithAt(stripped, STYLE, 0)
                \/ cleaned = <<>>
             THEN CleanLines(Tail(lines))
             ELSE <<cleaned>> \o CleanLines(Tail(lines))

\* the repeat count above which a line equal to the previous one is dropped
MAX_LINE_REPEATS == 2

\* the second loop: consecutive duplicate lines; prev is prev_line_normalized
\* (<<>> for None: no kept line is empty) and count is repeat_count
RECURSIVE DedupeLines(_, _, _)
DedupeLines(lines, prev, count) ==
    IF lines = <<>> THEN <<>>
    ELSE LET line == Head(lines)
             line_normalized == lower(strip(line))
         IN  IF line = <<>> THEN DedupeLines(Tail(lines), prev, count)
             ELSE IF line_normalized = prev
                 THEN IF count + 1 > MAX_LINE_REPEATS
                      THEN DedupeLines(Tail(lines), prev, count + 1)
                      ELSE <<line>> \o DedupeLines(Tail(lines), prev, count + 1)
             ELSE <<line>> \o DedupeLines(Tail(lines), line_normalized, 0)

\* re.search(r'[.!?]\s*$', part)
EndsSentence(part) ==
    LET body == rstrip(part)
    IN  body # <<>> /\ body[Len(body)] \in {".", "!", "?"}

\* the third loop: a line is appended to the last part unless that part ends
\* a sentence
RECURSIVE JoinContinuations(_, _)
JoinContinuations(lines, result_parts) ==
    IF lines = <<>> THEN result_parts
    ELSE LET line == Head(lines)
             n == Len(result_parts)
         IN  IF line = <<>> THEN JoinContinuations(Tail(lines), result_parts)
             ELSE IF n > 0 /\ ~EndsSentence(result_parts[n])
                 THEN JoinContinuations(Tail(lines),
                          [result_parts EXCEPT ![n] = @ \o <<" ">> \o line])
             ELSE JoinContinuations(Tail(lines), Append(result_parts, line))

\* re.sub(r'\n\s*\n+', '\n', text)
RECURSIVE CollapseBlankLines(_)
CollapseBlankLines(text) ==
    LET p == Find(text, <<"\n">>, 0)
        run == SkipSpace(text, p)
        newlines == {k \in (p + 1)..run : text[k] = "\n"}
        last == CHOOSE k \in newlines : \A j \in newlines : j <= k
    IN  IF p = -1 THEN text
        ELSE IF last > p + 1
            THEN Take(text, p + 1) \o CollapseBlankLines(Drop(text, last))
        ELSE Take(text, p + 1) \o CollapseBlankLines(Drop(text, p + 1))

\* re.split(r'([.!?]\s+)', text) recombined: each sentence with its separator
RECURSIVE Sentences(_)
Sentences(text) ==
    LET seps == {k \in 1..(Len(text) - 1) :
                    text[k] \in {".", "!", "?"} /\ IsSpace(text[k + 1])}
        p == CHOOSE k \in seps : \A j \in seps : k <= j
        end == SkipSpace(text, p)
    IN  IF seps = {} THEN <<text>>
        ELSE <<Take(text, end)>> \o Sentences(Drop(text, end))

\* the fourth loop: consecutive duplicate sentences; prev is prev_sentence
\* (<<>> for None: no kept sentence is blank)
RECURSIVE DedupeSentences(_, _)
DedupeSentences(sentences, prev) ==
    IF sentences = <<>> THEN <<>>
    ELSE LET sentence == Head(sentences)
             sentence_normalized == lower(strip(sentence))
         IN  IF sentence_normalized # <<>> /\ sentence_normalized # prev
             THEN <<sentence>> \o DedupeSentences(Tail(sentences), sentence_normalized)
             ELSE DedupeSentences(Tail(sentences), prev)

\* the text before phrase-level deduplication (lines 118-225)
CleanBeforeDedupe(raw) ==
    LET kept == DedupeLines(CleanLines(SplitLines(raw)), <<>>, 0)
        result_parts == JoinContinuations(kept, <<>>)
        joined == CollapseBlankLines(CollapseRuns(join(<<"\n">>, result_parts), {" "}))
    IN  strip(join(<<>>, DedupeSentences(Sentences(joined), <<>>)))

\* the lines the fallback extraction keeps
RECURSIVE FallbackLines(_)
FallbackLines(lines) ==
    IF lines = <<>> THEN <<>>
    ELSE LET line == strip(Head(lines))
             cleaned == strip(RemoveTags(line))
         IN  IF \/ line = <<>>
                \/ StartsWithAt(line, WEBVTT, 0)
                \/ StartsWithAt(line, NOTE, 0)
                \/ StartsWithAt(line, STYLE, 0)
                \/ IsTimestamp(line)
                \/ IsCueNumber(line)
                \/ ~(Len(cleaned) > 2)
             THEN FallbackLines(Tail(lines))
             ELSE <<cleaned>> \o FallbackLines(Tail(lines))

\* the text after phrase-level deduplication and the fallback (lines 230-257)
CleanAfterDedupe(raw) ==
    LET result == collapse_consecutive_repeated_phrases(CleanBeforeDedupe(raw))
        fallback_lines == FallbackLines(SplitLines(raw))
    IN  IF result = <<>> /\ raw # <<>> /\ fallback_lines # <<>>
        THEN collapse_consecutive_repeated_phrases(
                 strip(CollapseRuns(join(<<" ">>, fallback_lines), {" "})))
        ELSE result

\* text.rfind(c) within text, -1 if absent, as an offset
rfind(text, c) ==
    LET hits == {k \in 0..(Len(text) - 1) : text[k + 1] = c}
    IN  IF hits = {} THEN -1 ELSE CHOOSE k \in hits : \A j \in hits : j <= k

\* max of a non-empty set of integers
Max(S) == CHOOSE x \in S : \A y \in S : y <= x

\* the length cap with the slice taken one character too long
CapLengthSliceOffByOne(result, cap) ==
    LET truncated == Take(result, cap + 1)
        boundary == Max({rfind(truncated, "."), rfind(truncated, "!"),
                         rfind(truncated, "?"), rfind(truncated, "\n")})
    IN  IF Len(result) > cap
        THEN IF boundary * 5 > cap * 4
             THEN Take(truncated, boundary + 1)
             ELSE truncated
        ELSE result

\* the length cap (lines 259-273) with cap for MAX_SUBTITLE_CHARS;
\* boundary > cap * 0.8 is compared in fifths
CapLength(result, cap) ==
    LET truncated == Take(result, cap)
        boundary == Max({rfind(truncated, "."), rfind(truncated, "!"),
                         rfind(truncated, "?"), rfind(truncated, "\n")})
    IN  IF Len(result) > cap
        THEN IF boundary * 5 > cap * 4
             THEN Take(truncated, boundary + 1)
             ELSE truncated
        ELSE result

\* vtt_to_clean_text(raw) under a configured cap
CleanText(raw, cap) ==
    IF raw = <<>> THEN <<>> ELSE CapLength(CleanAfterDedupe(raw), cap)

\* the float a / b of two lengths, b > 0, written as the fraction in lowest
\* terms: 1.0 is [num |-> 1, den |-> 1]
Gcd(a, b) ==
    LET common == {d \in 1..b : a % d = 0 /\ b % d = 0}
    IN  CHOOSE d \in common : \A e \in common : e <= d

TrueDiv(a, b) == [num |-> a \div Gcd(a, b), den |-> b \div Gcd(a, b)]

\* lines 275-285: the stats dict for the lengths before and after dedupe
StatsOf(before, after) ==
    [clean_chars_before_dedupe |-> before,
     clean_chars_after_dedupe |-> after,
     dedupe_ratio |-> IF before > 0 THEN TrueDiv(after, before)
                      ELSE [num |-> 1, den |-> 1],
     removed_chars |-> before - after]

\* the stats of vtt_to_clean_text(raw, return_stats=True) under a configured cap
CleanStats(raw, cap) ==
    CHOOSE stats \in {StatsOf(before, after) :
                          before \in {Len(CleanBeforeDedupe(raw))},
                          after \in {Len(CleanText(raw, cap))}} : TRUE

vtt_to_clean_text(raw) == CleanText(raw, MAX_SUBTITLE_CHARS)

\* what vtt_to_clean_text(raw, return_stats=True) returns under a configured
\* cap: the early return of lines 115-116 hands back a bare string, every
\* other path the pair of the text and its stats
ReturnedWithStats(raw, cap) ==
    IF raw = <<>>
    THEN [kind |-> "str", text |-> <<>>]
    ELSE [kind |-> "tuple", text |-> CleanText(raw, cap), stats |-> CleanStats(raw, cap)]

\* a, b = value: a pair unpacks; a string unpacks only when it has two
\* characters, and otherwise the statement raises ValueError
Unpacks(value) == value.kind = "tuple" \/ Len(value.text) = 2

----------------------------------------------------------------------------
(* Specification: one call of collapse_consecutive_repeated_phrases, one   *)
(* step per iteration of its loops                                         *)

\* the longest text given to the call, in words
MaxTokens == 11

Words == {<<"a">>, <<"b">>}

\* the spelling of word w at place k: a styled text capitalizes every second
\* word and ends it with a full stop, which normalize_token undoes
Capital(w) == [k \in 1..Len(w) |-> IF w[k] = "a" THEN "A" ELSE "B"]

Spelt(w, k, styled) ==
    IF styled /\ k % 2 = 0 THEN Capital(w) \o <<".">> ELSE w

\* the texts of n words
PhraseTexts(n) ==
    {join(<<" ">>, [k \in 1..n |-> Spelt(ws[k], k, styled)]) :
         ws \in [1..n -> Words], styled \in BOOLEAN}

InitCollapse ==
    /\ \E n \in 0..MaxTokens : phrase_text \in PhraseTexts(n)
    /\ tokens = <<>>
    /\ norm_tokens = <<>>
    /\ period = 0
    /\ scan_i = 0
    /\ collapse_pc = "call"
    /\ collapse_result = <<>>
    /\ IdleInject
    /\ IdleClean
    /\ IdleJson
    /\ IdlePipe
    /\ IdleFetch
    /\ IdleCore

\* lines 48-64: the early returns, tokens and norm_tokens
CollapseCall ==
    /\ collapse_pc = "call"
    /\ \E spaced \in {CollapseRuns(phrase_text, {" ", "\t"})} :
       \E toks \in {split(spaced)} :
           IF phrase_text = <<>> \/ Len(toks) < MIN_TOKENS
           THEN /\ collapse_result' = IF phrase_text = <<>> THEN phrase_text
                                      ELSE spaced
                /\ collapse_pc' = "returned"
                /\ UNCHANGED <<tokens, norm_tokens, period>>
           ELSE /\ tokens' = toks
                /\ norm_tokens' = [k \in 1..Len(toks) |-> normalize_token(toks[k])]
                /\ period' = MAX_PERIOD
                /\ collapse_pc' = "for"
                /\ UNCHANGED collapse_result
    /\ UNCHANGED <<phrase_text, scan_i>>
    /\ UNCHANGED <<injectVars, cleanVars, jsonVars, pipeVars, fetchVars, coreVars>>

\* lines 65-69 and 88-93: the head of the for loop, and the return after it
ForPeriod ==
    /\ collapse_pc = "for"
    /\ IF period < MIN_PERIOD
       THEN /\ collapse_result' = CollapseRuns(join(<<" ">>, tokens), {" "})
            /\ collapse_pc' = "returned"
            /\ UNCHANGED <<period, scan_i>>
       ELSE IF period > Len(tokens) \div 2
       THEN /\ period' = period - 1
            /\ UNCHANGED <<collapse_pc, collapse_result, scan_i>>
       ELSE /\ scan_i' = 0
            /\ collapse_pc' = "while"
            /\ UNCHANGED <<period, collapse_result>>
    /\ UNCHANGED <<phrase_text, tokens, norm_tokens>>
    /\ UNCHANGED <<injectVars, cleanVars, jsonVars, pipeVars, fetchVars, coreVars>>

\* lines 70-85: one iteration of the while loop, or its exit
WhileScan ==
    /\ collapse_pc = "while"
    /\ IF ~(scan_i + 2 * period <= Len(tokens))
       THEN /\ period' = period - 1
            /\ collapse_pc' = "for"
            /\ UNCHANGED <<tokens, norm_tokens, scan_i>>
       ELSE IF SameBlock(norm_tokens, scan_i, scan_i + period, period)
       THEN LET j == RepeatEnd(norm_tokens, scan_i, scan_i + period, period)
            IN  /\ tokens' = DeleteSlice(tokens, scan_i + period, j)
                /\ norm_tokens' = DeleteSlice(norm_tokens, scan_i + period, j)
                /\ UNCHANGED <<period, collapse_pc, scan_i>>
       ELSE /\ scan_i' = scan_i + 1
            /\ UNCHANGED <<tokens, norm_tokens, period, collapse_pc>>
    /\ UNCHANGED <<phrase_text, collapse_result>>
    /\ UNCHANGED <<injectVars, cleanVars, jsonVars, pipeVars, fetchVars, coreVars>>

NextCollapse == CollapseCall \/ ForPeriod \/ WhileScan

SpecCollapse == InitCollapse /\ [][NextCollapse]_vars

\* the stepwise call returns what the function computes in one piece
StepsAgree ==
    collapse_pc = "returned"
        => collapse_result = collapse_consecutive_repeated_phrases(phrase_text)

----------------------------------------------------------------------------
(* Claims about the phrase collapse                                        *)

\* the normalized tokens of a text
NormTokensOf(text) ==
    LET toks == split(text)
    IN  [k \in 1..Len(toks) |-> normalize_token(toks[k])]

\* a window p in 3..18 and a position i at which the p normalized tokens
\* from i equal the p that follow them
HasRepeat(norms) ==
    \E p \in MIN_PERIOD..MAX_PERIOD :
        \E i \in 0..Len(norms) :
            /\ i + 2 * p <= Len(norms)
            /\ SameBlock(norms, i, i + p, p)

\* C6: for every text of at least 6 tokens, the text returned by
\* collapse_consecutive_repeated_phrases has no window p in 3..18 and no
\* position i at which the p normalized tokens from i equal the p normalized
\* tokens that follow them
C6_NoRepeatedPhraseLeft ==
    (collapse_pc = "returned" /\ Len(split(phrase_text)) >= MIN_TOKENS)
        => ~HasRepeat(NormTokensOf(collapse_result))

----------------------------------------------------------------------------
(* Specification: a raw subtitle track is cleaned, and the clean text is   *)
(* given to the cleaner again                                              *)

\* the longest raw track, in lines
MaxLines == 3

\* a cap small enough for the tracks of the model to exceed it
SmallCap == 11

L_HELLO == <<"h","e","l","l","o">>
L_HELLO_CAP == <<"H","e","l","l","o">>
L_YOU == <<"y","o","u",".">>
L_THERE == <<"t","h","e","r","e">>
L_BOB == <<"B","o","b",":">>
L_CUE == <<"A",":"," ","B",":"," ","c">>
L_TAGGED == <<"<","i",">","h","i","<","/","i",">">>
L_TIME == <<"0","0",":","0","0",":","0","1",".","0","0","0"," ","-","-",">"," ",
            "0","0",":","0","0",":","0","2",".","0","0","0">>
L_NUMBER == <<"1">>

RawLines == {L_HELLO, L_HELLO_CAP, L_YOU, L_THERE, L_BOB, L_CUE, L_TAGGED,
             WEBVTT, L_TIME, L_NUMBER}

\* the tracks of n lines
RawTracks(n) == {join(<<"\n">>, ls) : ls \in [1..n -> RawLines]}

\* the configured cap: the shipped one, and small ones that the tracks exceed
Caps == {SmallCap, SmallCap + 4, MAX_SUBTITLE_CHARS}

InitClean ==
    /\ \E n \in 0..MaxLines : vtt \in RawTracks(n)
    /\ max_chars \in Caps
    /\ deduplicated_lines = <<>>
    /\ clean_text = <<>>
    /\ clean_stats = [clean_chars_before_dedupe |-> 0,
                      clean_chars_after_dedupe |-> 0,
                      dedupe_ratio |-> [num |-> 1, den |-> 1],
                      removed_chars |-> 0]
    /\ reclean_text = <<>>
    /\ clean_pc = "raw"
    /\ IdleInject
    /\ IdleCollapse
    /\ IdleJson
    /\ IdlePipe
    /\ IdleFetch
    /\ IdleCore

\* clean_text, clean_stats = vtt_to_clean_text(vtt, return_stats=True)
Normalize ==
    /\ clean_pc = "raw"
    /\ deduplicated_lines' =
           IF vtt = <<>> THEN <<>>
           ELSE DedupeLines(CleanLines(SplitLines(vtt)), <<>>, 0)
    /\ LET value == ReturnedWithStats(vtt, max_chars)
       IN  IF Unpacks(value)
           THEN /\ clean_text' = value.text
                /\ clean_stats' = value.stats
                /\ clean_pc' = "cleaned"
           ELSE /\ clean_pc' = "raised"
                /\ UNCHANGED <<clean_text, clean_stats>>
    /\ UNCHANGED <<vtt, max_chars, reclean_text>>
    /\ UNCHANGED <<injectVars, collapseVars, jsonVars, pipeVars, fetchVars, coreVars>>

\* reclean_text = vtt_to_clean_text(clean_text)
Renormalize ==
    /\ clean_pc = "cleaned"
    /\ reclean_text' = CleanText(clean_text, max_chars)
    /\ clean_pc' = "recleaned"
    /\ UNCHANGED <<vtt, max_chars, deduplicated_lines, clean_text, clean_stats>>
    /\ UNCHANGED <<injectVars, collapseVars, jsonVars, pipeVars, fetchVars, coreVars>>

NextClean == Normalize \/ Renormalize

SpecClean == InitClean /\ [][NextClean]_vars

----------------------------------------------------------------------------
(* Claims about the subtitle cleaner                                       *)

\* C4: cleaning is convergent: vtt_to_clean_text applied to its own output
\* returns that output unchanged
C4_DedupeConvergence ==
    clean_pc = "recleaned" => reclean_text = clean_text

\* C5: the text returned by vtt_to_clean_text is never longer than the
\* configured cap, whether it was cut at a boundary, cut at the cap, or
\* produced by the fallback extraction
C5_LengthCap ==
    clean_pc # "raw" => Len(clean_text) <= max_chars

\* the text was produced by the fallback extraction
FromFallback(raw) ==
    /\ raw # <<>>
    /\ collapse_consecutive_repeated_phrases(CleanBeforeDedupe(raw)) = <<>>
    /\ FallbackLines(SplitLines(raw)) # <<>>

\* a track whose text was longer than the cap and was cut at the cap itself
C5_Witness ==
    /\ clean_pc = "cleaned"
    /\ Len(CleanAfterDedupe(vtt)) > max_chars
    /\ Len(clean_text) = max_chars
    /\ clean_text = Take(CleanAfterDedupe(vtt), max_chars)

\* a track whose text was longer than the cap and was cut at a boundary
\* before the cap
CutAtBoundary ==
    /\ clean_pc = "cleaned"
    /\ Len(CleanAfterDedupe(vtt)) > max_chars
    /\ Len(clean_text) < max_chars

\* a track whose text came from the fallback extraction and was cut
CutAfterFallback ==
    /\ clean_pc = "cleaned"
    /\ FromFallback(vtt)
    /\ Len(CleanAfterDedupe(vtt)) > max_chars

\* three lines in a row that are equal after trimming and lowercasing
ThreeEqualInARow(lines) ==
    \E k \in 1..(Len(lines) - 2) :
        /\ lower(strip(lines[k])) = lower(strip(lines[k + 1]))
        /\ lower(strip(lines[k])) = lower(strip(lines[k + 2]))

\* C7: the list of lines kept by the consecutive-line deduplication never
\* holds three consecutive lines that are equal after trimming and lowercasing
C7_ConsecutiveLineCap ==
    clean_pc # "raw" => ~ThreeEqualInARow(deduplicated_lines)

----------------------------------------------------------------------------
(* services/multipass_pipeline.py: extract_json_from_text                  *)


\* the code-fence marker, three grave accents
FENCE == <<GRAVE, GRAVE, GRAVE>>

\* lines 21-28: the text without its code fences
StripFences(text) ==
    LET cleaned == strip(text)
        lines == SplitLines(cleaned)
        body == Tail(lines)
        inner == IF body # <<>> /\ StartsWithAt(body[Len(body)], FENCE, 0)
                 THEN Take(body, Len(body) - 1)
                 ELSE body
    IN  IF StartsWithAt(cleaned, FENCE, 0)
        THEN strip(join(<<"\n">>, inner))
        ELSE cleaned

\* lines 31-37: json_start, the offset of the first { or [, -1 if there is none
FindJsonStart(cleaned) ==
    LET starts == {k \in 0..(Len(cleaned) - 1) : cleaned[k + 1] \in {"{", "["}}
    IN  IF starts = {} THEN -1 ELSE CHOOSE k \in starts : \A j \in starts : k <= j

\* lines 43-46: the locals of the scan; end is the offset of the character
\* at which the starting structure counted as closed, -1 until then
ScanStart ==
    [brace_depth |-> 0, bracket_depth |-> 0, in_string |-> FALSE,
     escape_next |-> FALSE, end |-> -1]

\* lines 48-82: one iteration of the scan, on the character at offset i
ScanStep(scan, cleaned, start_char, i) ==
    LET char == cleaned[i + 1]
        braces == IF char = "{" THEN scan.brace_depth + 1
                  ELSE IF char = "}" THEN scan.brace_depth - 1
                  ELSE scan.brace_depth
        brackets == IF char = "[" THEN scan.bracket_depth + 1
                    ELSE IF char = "]" THEN scan.bracket_depth - 1
                    ELSE scan.bracket_depth
    IN  IF scan.escape_next THEN [scan EXCEPT !.escape_next = FALSE]
        ELSE IF char = "\\" THEN [scan EXCEPT !.escape_next = TRUE]
        ELSE IF char = "\"" THEN [scan EXCEPT !.in_string = ~scan.in_string]
        ELSE IF scan.in_string THEN scan
        ELSE [scan EXCEPT !.brace_depth = braces,
                          !.bracket_depth = brackets,
                          !.end = IF \/ start_char = "{" /\ braces = 0
                                     \/ start_char = "[" /\ brackets = 0
                                  THEN i ELSE -1]

\* the iterations on the offsets from..(to - 1), left to right, stopping at
\* the return; the range is halved so that a long text is scanned in few
\* nested steps
RECURSIVE ScanJson(_, _, _, _, _)
ScanJson(scan, cleaned, start_char, from, to) ==
    IF scan.end # -1 \/ from >= to THEN scan
    ELSE IF to = from + 1 THEN ScanStep(scan, cleaned, start_char, from)
    ELSE LET mid == (from + to) \div 2
         IN  ScanJson(ScanJson(scan, cleaned, start_char, from, mid),
                      cleaned, start_char, mid, to)

\* the offset at which the extracted text ends, -1 if the scan finds no end
JsonEnd(cleaned) ==
    LET json_start == FindJsonStart(cleaned)
    IN  ScanJson(ScanStart, cleaned, cleaned[json_start + 1], json_start,
                 Len(cleaned)).end

\* the ValueError that extract_json_from_text raises, "none" if it returns
extract_json_error(text) ==
    LET cleaned == StripFences(text)
    IN  IF FindJsonStart(cleaned) = -1 THEN "no_json"
        ELSE IF JsonEnd(cleaned) = -1 THEN "incomplete"
        ELSE "none"

\* the text that extract_json_from_text returns
extract_json_from_text(text) ==
    LET cleaned == StripFences(text)
    IN  SubSeq(cleaned, FindJsonStart(cleaned) + 1, JsonEnd(cleaned) + 1)

----------------------------------------------------------------------------
(* json.loads, as llm_json uses it: Python values and the decoder          *)

\* Python values, tagged by type; a dict keeps its keys in insertion order
JNull == [kind |-> "null"]
JBool(b) == [kind |-> "bool", b |-> b]
JInt(n) == [kind |-> "int", n |-> n]
JFloat(lexeme) == [kind |-> "float", s |-> lexeme]
JStr(chars) == [kind |-> "str", s |-> chars]
JList(items) == [kind |-> "list", items |-> items]
JDict(keys, vals) == [kind |-> "dict", keys |-> keys, vals |-> vals]

\* isinstance(v, dict), isinstance(v, list)
IsDict(v) == v.kind = "dict"
IsList(v) == v.kind = "list"

\* key in d
Has(d, key) == \E k \in 1..Len(d.keys) : d.keys[k] = key

\* d.get(key, default)
Get(d, key, default) ==
    IF Has(d, key)
    THEN d.vals[CHOOSE k \in 1..Len(d.keys) : d.keys[k] = key]
    ELSE default

\* d[key] = v
Put(d, key, v) ==
    IF Has(d, key)
    THEN JDict(d.keys, [d.vals EXCEPT ![CHOOSE k \in 1..Len(d.keys) : d.keys[k] = key] = v])
    ELSE JDict(Append(d.keys, key), Append(d.vals, v))

DigitValue(c) ==
    CHOOSE n \in 0..9 : <<"0","1","2","3","4","5","6","7","8","9">>[n + 1] = c

\* int() of a run of digits
RECURSIVE IntOf(_)
IntOf(digits) ==
    IF digits = <<>> THEN 0
    ELSE 10 * IntOf(Take(digits, Len(digits) - 1)) + DigitValue(digits[Len(digits)])

\* A float is kept as the text json.loads read it from; what the program
\* does with a float (its truth value, its comparison with a length) is
\* computed from the digits of that text as float() rounds them.

\* the end of the mantissa of a float lexeme, where its exponent begins
MantissaEnd(lexeme) ==
    LET marks == {k \in 1..Len(lexeme) : lexeme[k] \in {"e", "E"}}
    IN  IF marks = {} THEN Len(lexeme) ELSE (CHOOSE k \in marks : TRUE) - 1

\* digits without their leading zeros
Significant(digits) ==
    LET kept == {k \in 1..Len(digits) : digits[k] # "0"}
    IN  IF kept = {} THEN <<>>
        ELSE SubSeq(digits, CHOOSE k \in kept : \A j \in kept : k <= j, Len(digits))

\* the digits of the mantissa, its sign and point left out
FloatDigits(lexeme) ==
    Significant(SelectSeq(SubSeq(lexeme, 1, MantissaEnd(lexeme)), IsDigit))

\* the exponent of a float lexeme; one of more than six digits counts as
\* 10^6, which a text of fewer digits than that cannot make up for
FloatExponent(lexeme) ==
    LET m == MantissaEnd(lexeme)
        sign == IF m + 2 <= Len(lexeme) /\ lexeme[m + 2] = "-" THEN -1 ELSE 1
        digits == Significant(SelectSeq(SubSeq(lexeme, m + 2, Len(lexeme)), IsDigit))
    IN  IF m = Len(lexeme) THEN 0
        ELSE IF Len(digits) > 6 THEN sign * 1000000
        ELSE sign * IntOf(digits)

\* the place of the point: the number of the lexeme is 0.d1d2... * 10^place
\* for the digits d1 d2 ... of FloatDigits
FloatPoint(lexeme) ==
    LET m == MantissaEnd(lexeme)
        dots == {k \in 1..m : lexeme[k] = "."}
        whole == IF dots = {} THEN m ELSE (CHOOSE k \in dots : TRUE) - 1
        all == SelectSeq(SubSeq(lexeme, 1, m), IsDigit)
    IN  Len(SelectSeq(SubSeq(lexeme, 1, whole), IsDigit))
            - (Len(all) - Len(Significant(all))) + FloatExponent(lexeme)

\* 0.a <= 0.b for two runs of digits after the point
FractionLeq(a, b) ==
    LET at(x, k) == IF k <= Len(x) THEN x[k] ELSE "0"
        differ == {k \in 1..(Len(a) + Len(b)) : at(a, k) # at(b, k)}
        first == CHOOSE k \in differ : \A j \in differ : k <= j
    IN  differ = {} \/ DigitValue(at(a, first)) < DigitValue(at(b, first))

\* the digits after the point of 2^-53, half the step between 1.0 and the
\* next float
HALF_EPSILON ==
       <<"0","0","0","0","0","0","0","0","0","0","0","0","0","0","0","1","1","1","0","2","2","3","0","2">>
    \o <<"4","6","2","5","1","5","6","5","4","0","4","2","3","6","3","1","6","6","8","0","9","0","8","2">>
    \o <<"0","3","1","2","5">>

\* the digits of 2^-1075 after its 323 leading zeros, half the smallest
\* positive float: a number up to it is read as 0.0
HALF_SUBNORMAL ==
       <<"2","4","7","0","3","2","8","2","2","9","2","0","6","2","3","2","7","2","0","8","8","2","8","4">>
    \o <<"3","9","6","4","3","4","1","1","0","6","8","6","1","8","2","5","2","9","9","0","1","3","0","7">>
    \o <<"1","6","2","3","8","2","2","1","2","7","9","2","8","4","1","2","5","0","3","3","7","7","5","3">>
    \o <<"6","3","5","1","0","4","3","7","5","9","3","2","6","4","9","9","1","8","1","8","0","8","1","7">>
    \o <<"9","9","6","1","8","9","8","9","8","2","8","2","3","4","7","7","2","2","8","5","8","8","6","5">>
    \o <<"4","6","3","3","2","8","3","5","5","1","7","7","9","6","9","8","9","8","1","9","9","3","8","7">>
    \o <<"3","9","8","0","0","5","3","9","0","9","3","9","0","6","3","1","5","0","3","5","6","5","9","5">>
    \o <<"1","5","5","7","0","2","2","6","3","9","2","2","9","0","8","5","8","3","9","2","4","4","9","1">>
    \o <<"0","5","1","8","4","4","3","5","9","3","1","8","0","2","8","4","9","9","3","6","5","3","6","1">>
    \o <<"5","2","5","0","0","3","1","9","3","7","0","4","5","7","6","7","8","2","4","9","2","1","9","3">>
    \o <<"6","5","6","2","3","6","6","9","8","6","3","6","5","8","4","8","0","7","5","7","0","0","1","5">>
    \o <<"8","5","7","6","9","2","6","9","9","0","3","7","0","6","3","1","1","9","2","8","2","7","9","5">>
    \o <<"5","8","5","5","1","3","3","2","9","2","7","8","3","4","3","3","8","4","0","9","3","5","1","9">>
    \o <<"7","8","0","1","5","5","3","1","2","4","6","5","9","7","2","6","3","5","7","9","5","7","4","6">>
    \o <<"2","2","7","6","6","4","6","5","2","7","2","8","2","7","2","2","0","0","5","6","3","7","4","0">>
    \o <<"0","6","4","8","5","4","9","9","9","7","7","0","9","6","5","9","9","4","7","0","4","5","4","0">>
    \o <<"2","0","8","2","8","1","6","6","2","2","6","2","3","7","8","5","7","3","9","3","4","5","0","7">>
    \o <<"3","6","3","3","9","0","0","7","9","6","7","7","6","1","9","3","0","5","7","7","5","0","6","7">>
    \o <<"4","0","1","7","6","3","2","4","6","7","3","6","0","0","9","6","8","9","5","1","3","4","0","5">>
    \o <<"3","5","5","3","7","4","5","8","5","1","6","6","6","1","1","3","4","2","2","3","7","6","6","6">>
    \o <<"7","8","6","0","4","1","6","2","1","5","9","6","8","0","4","6","1","9","1","4","4","6","7","2">>
    \o <<"9","1","8","4","0","3","0","0","5","3","0","0","5","7","5","3","0","8","4","9","0","4","8","7">>
    \o <<"6","5","3","9","1","7","1","1","3","8","6","5","9","1","6","4","6","2","3","9","5","2","4","9">>
    \o <<"1","2","6","2","3","6","5","3","8","8","1","8","7","9","6","3","6","2","3","9","3","7","3","2">>
    \o <<"8","0","4","2","3","8","9","1","0","1","8","6","7","2","3","4","8","4","9","7","6","6","8","2">>
    \o <<"3","5","0","8","9","8","6","3","3","8","8","5","8","7","9","2","5","6","2","8","3","0","2","7">>
    \o <<"5","5","9","9","5","6","5","7","5","2","4","4","5","5","5","0","7","2","5","5","1","8","9","3">>
    \o <<"1","3","6","9","0","8","3","6","2","5","4","7","7","9","1","8","6","9","4","8","6","6","7","9">>
    \o <<"9","4","9","6","8","3","2","4","0","4","9","7","0","5","8","2","1","0","2","8","5","1","3","1">>
    \o <<"8","5","4","5","1","3","9","6","2","1","3","8","3","7","7","2","2","8","2","6","1","4","5","4">>
    \o <<"3","7","6","9","3","4","1","2","5","3","2","0","9","8","5","9","1","3","2","7","6","6","7","2">>
    \o <<"3","6","3","2","8","1","2","5">>

\* twice a fraction below one half, digit by digit
DoubleFraction(d) ==
    [k \in 1..Len(d) |->
        <<"0","1","2","3","4","5","6","7","8","9">>[
            ((2 * DigitValue(d[k])
              + (IF k < Len(d) /\ DigitValue(d[k + 1]) >= 5 THEN 1 ELSE 0)) % 10) + 1]]

\* the digits after the point of half the step between the float n and the
\* next float, for an integer n >= 1: 2^-53 doubled for every power of two
\* up to n
RECURSIVE HalfStep(_)
HalfStep(n) == IF n < 2 THEN HALF_EPSILON ELSE DoubleFraction(HalfStep(n \div 2))

\* the float of a lexeme is 0.0 or -0.0: no digit but 0, or a number up to
\* 2^-1075, which rounds to zero
FloatIsZero(lexeme) ==
    LET digits == FloatDigits(lexeme)
        place == FloatPoint(lexeme)
    IN  \/ digits = <<>>
        \/ place < -323
        \/ place = -323 /\ FractionLeq(digits, HALF_SUBNORMAL)

FloatIsSpecial(lexeme) ==
    lexeme \in {<<"N","a","N">>, <<"I","n","f","i","n","i","t","y">>,
                <<"-","I","n","f","i","n","i","t","y">>}

\* 0 < f <= n for the float f of a lexeme and an integer n: the number
\* rounds to a float up to n when it is at most n plus half a step
FloatInRange(lexeme, n) ==
    LET digits == FloatDigits(lexeme)
        place == FloatPoint(lexeme)
        whole == IntOf([k \in 1..place |-> IF k <= Len(digits) THEN digits[k] ELSE "0"])
        fraction == SubSeq(digits, place + 1, Len(digits))
    IN  /\ ~FloatIsSpecial(lexeme)
        /\ lexeme[1] # "-"
        /\ ~FloatIsZero(lexeme)
        /\ n >= 1
        /\ \/ place <= 0
           \/ /\ place <= 9
              /\ \/ whole < n
                 \/ whole = n /\ FractionLeq(fraction, HalfStep(n))

\* bool(v)
Truthy(v) ==
    CASE v.kind = "null" -> FALSE
      [] v.kind = "bool" -> v.b
      [] v.kind = "int" -> v.n # 0
      [] v.kind = "float" ->
             FloatIsSpecial(v.s) \/ ~FloatIsZero(v.s)
      [] v.kind = "str" -> v.s # <<>>
      [] v.kind = "list" -> v.items # <<>>
      [] v.kind = "dict" -> v.keys # <<>>

\* the character at an offset, "" past the end of the text
CharAt(text, off) == IF off >= 0 /\ off < Len(text) THEN text[off + 1] ELSE ""

\* the decoder's whitespace, [ \t\n\r]*: the offset of the first other character
RECURSIVE SkipWs(_, _)
SkipWs(text, off) ==
    IF CharAt(text, off) \in {" ", "\t", "\n", "\r"} THEN SkipWs(text, off + 1) ELSE off

\* \d*: the offset after the run of digits at off
RECURSIVE DigitsEnd(_, _)
DigitsEnd(text, off) ==
    IF off < Len(text) /\ IsDigit(text[off + 1]) THEN DigitsEnd(text, off + 1) ELSE off

\* what a decoding step yields: a value and the offset after it, or a
\* failure: json.JSONDecodeError, or the RecursionError of the interpreter
Decoded(v, next) == [ok |-> TRUE, val |-> v, next |-> next, error |-> "none"]
Undecodable == [ok |-> FALSE, val |-> JNull, next |-> 0, error |-> "JSONDecodeError"]
TooDeep == [ok |-> FALSE, val |-> JNull, next |-> 0, error |-> "RecursionError"]

\* sys.getrecursionlimit(): the depth of calls that the interpreter allows
RECURSION_LIMIT == 1000

\* the frames that json.loads adds to those of its caller before the scanner
\* runs: loads, JSONDecoder.decode and raw_decode
DECODER_FRAMES == 3

\* the number of [ that follow one another from off
OpenRun(text, off) ==
    LET others == {k \in off..(Len(text) - 1) : text[k + 1] # "["}
    IN  (IF others = {} THEN Len(text) ELSE CHOOSE k \in others : \A j \in others : k <= j)
            - off

HEX_DIGITS == <<"0","1","2","3","4","5","6","7","8","9","a","b","c","d","e","f">>
HEX_CAPITALS == <<"0","1","2","3","4","5","6","7","8","9","A","B","C","D","E","F">>

IsHexDigit(c) == \E n \in 1..16 : c = HEX_DIGITS[n] \/ c = HEX_CAPITALS[n]
HexValue(c) == (CHOOSE n \in 1..16 : c = HEX_DIGITS[n] \/ c = HEX_CAPITALS[n]) - 1

\* hex(n) without its prefix
RECURSIVE Hex(_)
Hex(n) == IF n < 16 THEN HEX_DIGITS[n + 1] ELSE Hex(n \div 16) \o HEX_DIGITS[(n % 16) + 1]

\* chr(n) for every code point: one above 255 is written by its code
CharOf(n) == IF n < 256 THEN Chr(n) ELSE "u" \o Hex(n)

\* the characters below U+0020, which a JSON string may not hold as they are
ControlChars == {Chr(n) : n \in 0..31}

\* the four characters from off are hexadecimal digits, and their value
IsHex4(text, off) ==
    /\ off + 4 <= Len(text)
    /\ \A k \in 1..4 : IsHexDigit(text[off + k])
Hex4(text, off) ==
    4096 * HexValue(text[off + 1]) + 256 * HexValue(text[off + 2])
        + 16 * HexValue(text[off + 3]) + HexValue(text[off + 4])

IsHighSurrogate(n) == n >= 55296 /\ n <= 56319
IsLowSurrogate(n) == n >= 56320 /\ n <= 57343

\* the character of the escape \e, e one of " \ / b f n r t
Unescaped(e) ==
    CASE e = "b" -> Chr(8) [] e = "f" -> Chr(12) [] e = "n" -> "\n"
      [] e = "r" -> "\r" [] e = "t" -> "\t" [] OTHER -> e

\* a string from the offset after its opening quote (scanstring, strict): a
\* character below U+0020 is rejected; the escapes are \" \\ \/ \b \f \n \r
\* \t and \uXXXX, and a high surrogate followed by the escape of a low one
\* gives the one character of the pair
RECURSIVE ParseString(_, _, _)
ParseString(text, off, chars) ==
    LET c == CharAt(text, off)
        e == CharAt(text, off + 1)
        n == Hex4(text, off + 2)
        paired == /\ IsHighSurrogate(n)
                  /\ off + 12 <= Len(text)
                  /\ CharAt(text, off + 6) = "\\"
                  /\ CharAt(text, off + 7) = "u"
        m == Hex4(text, off + 8)
    IN  IF c = "" \/ c \in ControlChars THEN Undecodable
        ELSE IF c = "\"" THEN Decoded(JStr(chars), off + 1)
        ELSE IF c = "\\"
            THEN IF e \in {"\"", "\\", "/", "b", "f", "n", "r", "t"}
                     THEN ParseString(text, off + 2, Append(chars, Unescaped(e)))
                 ELSE IF e # "u" \/ ~IsHex4(text, off + 2) THEN Undecodable
                 ELSE IF ~paired THEN ParseString(text, off + 6, Append(chars, CharOf(n)))
                 ELSE IF ~IsHex4(text, off + 8) THEN Undecodable
                 ELSE IF IsLowSurrogate(m)
                     THEN ParseString(text, off + 12,
                              Append(chars, CharOf(65536 + 1024 * (n - 55296) + (m - 56320))))
                 ELSE ParseString(text, off + 6, Append(chars, CharOf(n)))
        ELSE ParseString(text, off + 1, Append(chars, c))

\* (-?(?:0|[1-9]\d*))(\.\d+)?([eE][-+]?\d+)? at off: an int, or a float kept
\* as its lexeme
ParseNumber(text, off) ==
    LET first == IF CharAt(text, off) = "-" THEN off + 1 ELSE off
        int_end == IF CharAt(text, first) = "0" THEN first + 1
                   ELSE DigitsEnd(text, first)
        frac_end == IF CharAt(text, int_end) = "." /\ DigitsEnd(text, int_end + 1) > int_end + 1
                    THEN DigitsEnd(text, int_end + 1)
                    ELSE int_end
        exp_digits == IF CharAt(text, frac_end + 1) \in {"+", "-"}
                      THEN frac_end + 2 ELSE frac_end + 1
        exp_end == IF CharAt(text, frac_end) \in {"e", "E"}
                      /\ DigitsEnd(text, exp_digits) > exp_digits
                   THEN DigitsEnd(text, exp_digits)
                   ELSE frac_end
        magnitude == IntOf(SubSeq(text, first + 1, int_end))
    IN  IF int_end = first THEN Undecodable
        ELSE IF exp_end > int_end
            THEN Decoded(JFloat(SubSeq(text, off + 1, exp_end)), exp_end)
        ELSE Decoded(JInt(IF first > off THEN 0 - magnitude ELSE magnitude), int_end)

L_TRUE == <<"t","r","u","e">>
L_FALSE == <<"f","a","l","s","e">>
L_NULL == <<"n","u","l","l">>
L_NAN == <<"N","a","N">>
L_INFINITY == <<"I","n","f","i","n","i","t","y">>

RECURSIVE ParseValue(_, _, _)
RECURSIVE ParseElements(_, _, _, _)
RECURSIVE ParseMembers(_, _, _, _)

\* the elements of an array from the offset of an element; used is the depth
\* of calls in use, this array counted
ParseElements(text, off, items, used) ==
    LET v == ParseValue(text, off, used)
        end == SkipWs(text, v.next)
    IN  IF ~v.ok THEN v
        ELSE IF CharAt(text, end) = ","
            THEN ParseElements(text, SkipWs(text, end + 1), Append(items, v.val), used)
        ELSE IF CharAt(text, end) = "]"
            THEN Decoded(JList(Append(items, v.val)), end + 1)
        ELSE Undecodable

\* the members of an object from the offset of a key; a repeated key keeps
\* its place and takes the later value
ParseMembers(text, off, d, used) ==
    LET key == ParseString(text, off + 1, <<>>)
        colon == SkipWs(text, key.next)
        v == ParseValue(text, SkipWs(text, colon + 1), used)
        end == SkipWs(text, v.next)
    IN  IF CharAt(text, off) # "\"" \/ ~key.ok THEN Undecodable
        ELSE IF CharAt(text, colon) # ":" THEN Undecodable
        ELSE IF ~v.ok THEN v
        ELSE IF CharAt(text, end) = ","
            THEN ParseMembers(text, SkipWs(text, end + 1), Put(d, key.val.s, v.val), used)
        ELSE IF CharAt(text, end) = "}"
            THEN Decoded(Put(d, key.val.s, v.val), end + 1)
        ELSE Undecodable

\* one value at off (scan_once): the scanner enters an object or an array by
\* Py_EnterRecursiveCall, which raises RecursionError when the depth of calls
\* in use, used, reaches the limit with it; the arrays of a run of [ are
\* entered one inside the other before anything else is read
ParseValue(text, off, used) ==
    LET c == CharAt(text, off)
        after == SkipWs(text, off + 1)
    IN  IF c = "\"" THEN ParseString(text, off + 1, <<>>)
        ELSE IF c = "{"
            THEN IF used + 1 >= RECURSION_LIMIT THEN TooDeep
                 ELSE IF CharAt(text, after) = "}" THEN Decoded(JDict(<<>>, <<>>), after + 1)
                 ELSE ParseMembers(text, after, JDict(<<>>, <<>>), used + 1)
        ELSE IF c = "["
            THEN IF used + OpenRun(text, off) >= RECURSION_LIMIT THEN TooDeep
                 ELSE IF CharAt(text, after) = "]" THEN Decoded(JList(<<>>), after + 1)
                 ELSE ParseElements(text, after, <<>>, used + 1)
        ELSE IF StartsWithAt(text, L_NULL, off) THEN Decoded(JNull, off + 4)
        ELSE IF StartsWithAt(text, L_TRUE, off) THEN Decoded(JBool(TRUE), off + 4)
        ELSE IF StartsWithAt(text, L_FALSE, off) THEN Decoded(JBool(FALSE), off + 5)
        ELSE IF StartsWithAt(text, L_NAN, off) THEN Decoded(JFloat(L_NAN), off + 3)
        ELSE IF StartsWithAt(text, L_INFINITY, off) THEN Decoded(JFloat(L_INFINITY), off + 8)
        ELSE IF StartsWithAt(text, <<"-">> \o L_INFINITY, off)
            THEN Decoded(JFloat(<<"-">> \o L_INFINITY), off + 9)
        ELSE ParseNumber(text, off)

\* json.loads(text) called with frames frames of the stack in use, the
\* caller's included: the value, or the failure
loads(text, frames) ==
    LET v == ParseValue(text, SkipWs(text, 0), frames + DECODER_FRAMES)
    IN  IF ~v.ok \/ SkipWs(text, v.next) = Len(text) THEN v ELSE Undecodable

----------------------------------------------------------------------------
(* Specification: a response is given to extract_json_from_text            *)

\* the longest body of a response, in characters
MaxBody == 5

JsonChars == {"{", "}", "[", "]", "\"", "\\"}

\* what a response puts around its body: nothing, a fenced block, or prose
Wrappers ==
    {<< <<>>, <<>> >>,
     << FENCE \o <<"j","s","o","n","\n">>, <<"\n">> \o FENCE >>,
     << <<"x"," ">>, <<" ","y">> >>}

\* the responses whose body has n characters
Responses(n) ==
    {w[1] \o body \o w[2] : body \in [1..n -> JsonChars], w \in Wrappers}

InitJson ==
    /\ \E n \in 0..MaxBody : response \in Responses(n)
    /\ json_text = <<>>
    /\ json_error = "none"
    /\ json_pc = "response"
    /\ IdleInject
    /\ IdleCollapse
    /\ IdleClean
    /\ IdlePipe
    /\ IdleFetch
    /\ IdleCore

\* json_text = extract_json_from_text(response), or the ValueError
ExtractJson ==
    /\ json_pc = "response"
    /\ json_error' = extract_json_error(response)
    /\ json_text' = IF json_error' = "none"
                    THEN extract_json_from_text(response)
                    ELSE <<>>
    /\ json_pc' = "extracted"
    /\ UNCHANGED response
    /\ UNCHANGED <<injectVars, collapseVars, cleanVars, pipeVars, fetchVars, coreVars>>

NextJson == ExtractJson

SpecJson == InitJson /\ [][NextJson]_vars

----------------------------------------------------------------------------
(* Claims about the JSON extraction                                        *)

\* the brace depth and the bracket depth at the end of a text, where the
\* characters inside double-quoted strings are not counted and a backslash
\* escapes the character after it
RECURSIVE Depths(_, _, _, _, _)
Depths(text, i, depth, in_string, escape_next) ==
    IF i > Len(text) THEN depth
    ELSE IF escape_next THEN Depths(text, i + 1, depth, in_string, FALSE)
    ELSE IF text[i] = "\\" THEN Depths(text, i + 1, depth, in_string, TRUE)
    ELSE IF text[i] = "\"" THEN Depths(text, i + 1, depth, ~in_string, FALSE)
    ELSE IF in_string THEN Depths(text, i + 1, depth, in_string, FALSE)
    ELSE Depths(text, i + 1,
                [brace |-> depth.brace + (IF text[i] = "{" THEN 1
                                          ELSE IF text[i] = "}" THEN -1 ELSE 0),
                 bracket |-> depth.bracket + (IF text[i] = "[" THEN 1
                                              ELSE IF text[i] = "]" THEN -1 ELSE 0)],
                in_string, FALSE)

Balanced(text) ==
    Depths(text, 1, [brace |-> 0, bracket |-> 0], FALSE, FALSE)
        = [brace |-> 0, bracket |-> 0]

\* C8: the text returned by extract_json_from_text starts at the first { or [
\* of the response without its fences, and is balanced in both braces and
\* brackets, the characters inside strings not counted
C8_ExtractedIsBalanced ==
    (json_pc = "extracted" /\ json_error = "none")
        => /\ json_text # <<>>
           /\ json_text[1] \in {"{", "["}
           /\ Balanced(json_text)

----------------------------------------------------------------------------
(* services/multipass_pipeline.py: llm_json and run_multipass              *)

\* lines 105-107 and 125-127: the value llm_json gets out of one response, or
\* the failure: the ValueError of the extraction and the JSONDecodeError,
\* which llm_json catches, or the RecursionError, which it does not
ParseResponse(text, frames) ==
    IF extract_json_error(text) # "none" THEN Undecodable
    ELSE loads(extract_json_from_text(text), frames)

K_TEXT == <<"T","e","x","t">>
K_PROMPT == <<"P","r","o","m","p","t">>
K_SLIDE == <<"s","l","i","d","e">>
K_STATUS == <<"s","t","a","t","u","s">>
K_REPAIRED_SLIDES == <<"r","e","p","a","i","r","e","d","_","s","l","i","d","e","s">>
V_FAIL == <<"f","a","i","l">>
V_PASS == <<"p","a","s","s">>

\* the key of results under which the output of a stage is stored
ResultKey(k) ==
    CASE k = 0 -> <<"p","a","s","s","0","_","a","n","a","l","y","s","i","s">>
      [] k = 1 -> <<"s","t","o","r","y","_","c","o","r","e">>
      [] k = 2 -> <<"b","e","a","t","s","_","j","s","o","n">>
      [] k = 3 -> <<"s","t","o","r","y","_","s","l","i","d","e","s">>
      [] k = 4 -> <<"q","u","a","l","i","t","y","_","r","e","p","o","r","t">>

\* a variant of the type checks that lets any value pass as the beats
StageContractSkippingBeats(k, v) ==
    CASE k \in {0, 1, 4} -> IsDict(v)
      [] k = 2 -> TRUE
      [] k = 3 -> /\ IsList(v)
                  /\ \A n \in 1..Len(v.items) :
                         /\ IsDict(v.items[n])
                         /\ Has(v.items[n], K_TEXT)
                         /\ Has(v.items[n], K_PROMPT)

\* the type checks that follow each llm_json call
StageContract(k, v) ==
    CASE k \in {0, 1, 4} -> IsDict(v)
      [] k = 2 -> IsList(v)
      [] k = 3 -> /\ IsList(v)
                  /\ \A n \in 1..Len(v.items) :
                         /\ IsDict(v.items[n])
                         /\ Has(v.items[n], K_TEXT)
                         /\ Has(v.items[n], K_PROMPT)

\* line 362 with the last position left out of the range
RepairTargetBelowLast(slide_num, n) ==
    CASE slide_num.kind = "int" ->
             IF 0 < slide_num.n /\ slide_num.n < n THEN "replace" ELSE "skip"
      [] slide_num.kind = "str" -> IF slide_num.s = <<>> THEN "skip" ELSE "TypeError"
      [] OTHER -> "skip"

\* line 362: slide_num and 0 < slide_num <= len(slides); "skip" when it is
\* false, "TypeError" when the comparison or the index raises
RepairTarget(slide_num, n) ==
    CASE slide_num.kind = "null" -> "skip"
      [] slide_num.kind = "bool" -> IF slide_num.b /\ 1 <= n THEN "replace" ELSE "skip"
      [] slide_num.kind = "int" ->
             IF 0 < slide_num.n /\ slide_num.n <= n THEN "replace" ELSE "skip"
      [] slide_num.kind = "float" ->
             IF FloatInRange(slide_num.s, n) THEN "TypeError" ELSE "skip"
      [] slide_num.kind = "str" -> IF slide_num.s = <<>> THEN "skip" ELSE "TypeError"
      [] slide_num.kind = "list" -> IF slide_num.items = <<>> THEN "skip" ELSE "TypeError"
      [] slide_num.kind = "dict" -> IF slide_num.keys = <<>> THEN "skip" ELSE "TypeError"

\* the index that a replacing slide_num names
RepairIndex(slide_num) == IF slide_num.kind = "bool" THEN 1 ELSE slide_num.n

\* a variant of the replacing slide that is the repair as the judge gave it
RepairedSlideAsGiven(repaired) == repaired

\* lines 363-366: the slide that replaces the repaired one
RepairedSlide(repaired) ==
    JDict(<<K_TEXT, K_PROMPT>>,
          <<Get(repaired, K_TEXT, JStr(<<>>)), Get(repaired, K_PROMPT, JStr(<<>>))>>)

\* what the for loop of line 360 iterates over: the items of a list, the keys
\* of a dict, the characters of a str
Iterated(v) ==
    CASE v.kind = "list" -> v.items
      [] v.kind = "dict" -> [k \in 1..Len(v.keys) |-> JStr(v.keys[k])]
      [] v.kind = "str" -> [k \in 1..Len(v.s) |-> JStr(<<v.s[k]>>)]
      [] OTHER -> <<>>

\* lines 360-366: the loop over the repairs; the slides and the kind of the
\* exception that ended the loop, "none" if it ran to its end
RECURSIVE ApplyRepairs(_, _)
ApplyRepairs(slides, repairs) ==
    IF repairs = <<>> THEN [slides |-> slides, error |-> "none"]
    ELSE LET repaired == Head(repairs)
             slide_num == Get(repaired, K_SLIDE, JNull)
             target == RepairTarget(slide_num, Len(slides))
         IN  IF ~IsDict(repaired) THEN [slides |-> slides, error |-> "AttributeError"]
             ELSE IF target = "TypeError" THEN [slides |-> slides, error |-> "TypeError"]
             ELSE IF target = "replace"
                 THEN ApplyRepairs([slides EXCEPT ![RepairIndex(slide_num)] =
                                        RepairedSlide(repaired)], Tail(repairs))
             ELSE ApplyRepairs(slides, Tail(repairs))

\* line 357: the condition under which repairs are applied
RepairsRequested(pass5_result) ==
    /\ Get(pass5_result, K_STATUS, JNull) = JStr(V_FAIL)
    /\ Truthy(Get(pass5_result, K_REPAIRED_SLIDES, JNull))

\* lines 356-367: the slides after the repairs of the judge, and the error
RepairOutcome(slides, pass5_result) ==
    LET repaired_slides == Get(pass5_result, K_REPAIRED_SLIDES, JNull)
    IN  IF ~RepairsRequested(pass5_result) THEN [slides |-> slides, error |-> "none"]
        ELSE IF repaired_slides.kind \in {"int", "float", "bool"}
            THEN [slides |-> slides, error |-> "TypeError"]
        ELSE ApplyRepairs(slides, Iterated(repaired_slides))

----------------------------------------------------------------------------
(* Specification: one run of run_multipass against a generation backend    *)
(* that answers each request with any of a set of responses, or fails      *)

\* the longest slide sequence that stage 3 answers with
MaxSlides == 3

\* the decimal text of an integer
RECURSIVE IntText(_)
IntText(n) ==
    IF n < 0 THEN <<"-">> \o IntText(0 - n)
    ELSE IF n < 10 THEN <<<<"0","1","2","3","4","5","6","7","8","9">>[n + 1]>>
    ELSE IntText(n \div 10) \o IntText(n % 10)

\* {"Text":"t<k>","Prompt":"p<k>"}
SlideJson(k) ==
    <<"{","\"","T","e","x","t","\"",":","\"","t">> \o IntText(k) \o <<"\"",",","\"","P","r","o","m","p","t","\"",":","\"","p">> \o IntText(k) \o <<"\"","}">>

\* a stage-3 response of n slides
SlidesJson(n) ==
    <<"[">> \o join(<<",">>, [k \in 1..n |-> SlideJson(k)]) \o <<"]">>

\* {"slide":<k>,"Text":"r<k>","Prompt":"q<k>"}
RepairJson(k) ==
    <<"{","\"","s","l","i","d","e","\"",":">> \o IntText(k) \o <<",","\"","T","e","x","t","\"",":","\"","r">> \o IntText(k)
        \o <<"\"",",","\"","P","r","o","m","p","t","\"",":","\"","q">> \o IntText(k) \o <<"\"","}">>

\* the repairs a judge response may list: one per position from 0 to one past
\* the longest sequence, one without Text and Prompt, one whose position is a
\* string, and one that is not an object
RepairEntries ==
    {RepairJson(k) : k \in 0..(MaxSlides + 1)}
        \cup {<<"{","\"","s","l","i","d","e","\"",":","1","}">>, <<"{","\"","s","l","i","d","e","\"",":","\"","2","\"",",","\"","T","e","x","t","\"",":","\"","r","\"",",","\"","P","r","o","m","p","t","\"",":","\"","q","\"","}">>, <<"7">>}

\* the lists of repairs of a failing judge response: none, one, or a repair
\* of a position followed by any other
RepairLists ==
    {<<>>} \cup {<<e>> : e \in RepairEntries}
           \cup {<<RepairJson(k), f>> : k \in 0..(MaxSlides + 1), f \in RepairEntries}

\* {"status":"<status>","repaired_slides":[...]}
JudgeJson(status, repairs) ==
    <<"{","\"","s","t","a","t","u","s","\"",":","\"">> \o status \o <<"\"",",","\"","r","e","p","a","i","r","e","d","_","s","l","i","d","e","s","\"",":","[">>
        \o join(<<",">>, repairs) \o <<"]","}">>

R_OBJECT == <<"{","\"","a","\"",":","1","}">>
R_FENCED == FENCE \o <<"j","s","o","n">> \o <<"\n">> \o <<"{","\"","a","\"",":","1","}">> \o <<"\n">> \o FENCE
R_LIST == <<"[","1","]">>
R_BROKEN == <<"{","\"","a","\"",":","[","1","}">>
R_PROSE == <<"s","o","r","r","y">>
R_SLIDE_WITHOUT_PROMPT == <<"[","{","\"","T","e","x","t","\"",":","\"","t","1","\"","}","]">>
R_SLIDE_NOT_OBJECT == <<"[","\"","t","1","\"","]">>
\* a JSON text that is neither an object nor an array
R_NUMBER == <<"7">>
\* arrays one inside the other, as many as the interpreter allows calls
R_DEEP == [k \in 1..RECURSION_LIMIT |-> "["] \o [k \in 1..RECURSION_LIMIT |-> "]"]

\* the depth of the stack at which llm_json runs: called from a script
\* through run_multipass, and from further down
CallDepths == {3, 40}

\* the responses the backend may give to a request of stage k
StageResponses(k) ==
    {R_OBJECT, R_FENCED, R_LIST, R_BROKEN, R_PROSE, R_NUMBER, R_DEEP}
        \cup (IF k = 3
              THEN {SlidesJson(n) : n \in 0..MaxSlides}
                       \cup {R_SLIDE_WITHOUT_PROMPT, R_SLIDE_NOT_OBJECT}
              ELSE {})
        \cup (IF k = 4
              THEN {JudgeJson(V_FAIL, repairs) : repairs \in RepairLists}
                       \cup {JudgeJson(V_PASS, <<e>>) : e \in RepairEntries}
              ELSE {})

\* the responses of all stages
PipelineResponses == UNION {StageResponses(k) : k \in 0..4}

\* what llm_json gets out of each response at each depth of the stack,
\* computed once
ParsedResponses ==
    [frames \in CallDepths |-> [text \in PipelineResponses |-> ParseResponse(text, frames)]]

\* the exceptions generate_text raises: an API error of call_openai, a
\* missing key or an unknown backend, a failure of call_genai_app
GenerationErrors == {"Exception", "ValueError", "RuntimeError"}

InitPipeline ==
    /\ stack_frames \in CallDepths
    /\ repaired_response = <<>>
    /\ stage = 0
    /\ attempt = "first"
    /\ first_response = <<>>
    /\ requests = <<>>
    /\ last_prompt = <<>>
    /\ results = JDict(<<>>, <<>>)
    /\ pass3_result = <<>>
    /\ returned = JNull
    /\ pipe_error = "none"
    /\ pipe_cause = "none"
    /\ pipe_pc = "running"
    /\ IdleInject
    /\ IdleCollapse
    /\ IdleClean
    /\ IdleJson
    /\ IdleFetch
    /\ IdleCore

\* the run raises an exception of class cls
Raise(cls, cause) ==
    /\ pipe_pc' = "raised"
    /\ pipe_error' = cls
    /\ pipe_cause' = cause
    /\ UNCHANGED <<stage, attempt, first_response, results, pass3_result, returned>>

\* a variant of the acceptance that goes from the story core straight to the
\* narration
AcceptSkippingBeats(v) ==
    LET outcome == RepairOutcome(Get(results, ResultKey(3), JNull).items, v)
        final == Put(Put(results, ResultKey(4), v), ResultKey(3), JList(outcome.slides))
    IN  IF ~StageContract(stage, v) THEN Raise("ValueError", "contract")
        ELSE IF stage < 4
            THEN /\ results' = Put(results, ResultKey(stage), v)
                 /\ pass3_result' = IF stage = 3 THEN v.items ELSE pass3_result
                 /\ stage' = IF stage = 1 THEN 3 ELSE stage + 1
                 /\ attempt' = "first"
                 /\ first_response' = <<>>
                 /\ UNCHANGED <<returned, pipe_error, pipe_cause, pipe_pc>>
        ELSE IF outcome.error # "none"
            THEN /\ results' = final
                 /\ pipe_pc' = "raised"
                 /\ pipe_error' = outcome.error
                 /\ pipe_cause' = "repairs"
                 /\ UNCHANGED <<stage, attempt, first_response, pass3_result, returned>>
        ELSE /\ results' = final
             /\ returned' = final
             /\ pipe_pc' = "returned"
             /\ first_response' = <<>>
             /\ UNCHANGED <<stage, attempt, pass3_result, pipe_error, pipe_cause>>

\* what run_multipass does with the value v that llm_json returned for the
\* stage: the type check, the store, and after the judge the repairs and the
\* return
Accept(v) ==
    LET outcome == RepairOutcome(Get(results, ResultKey(3), JNull).items, v)
        final == Put(Put(results, ResultKey(4), v), ResultKey(3), JList(outcome.slides))
    IN  IF ~StageContract(stage, v) THEN Raise("ValueError", "contract")
        ELSE IF stage < 4
            THEN /\ results' = Put(results, ResultKey(stage), v)
                 /\ pass3_result' = IF stage = 3 THEN v.items ELSE pass3_result
                 /\ stage' = stage + 1
                 /\ attempt' = "first"
                 /\ first_response' = <<>>
                 /\ UNCHANGED <<returned, pipe_error, pipe_cause, pipe_pc>>
        ELSE IF outcome.error # "none"
            THEN /\ results' = final
                 /\ pipe_pc' = "raised"
                 /\ pipe_error' = outcome.error
                 /\ pipe_cause' = "repairs"
                 /\ UNCHANGED <<stage, attempt, first_response, pass3_result, returned>>
        ELSE /\ results' = final
             /\ returned' = final
             /\ pipe_pc' = "returned"
             /\ first_response' = <<>>
             /\ UNCHANGED <<stage, attempt, pass3_result, pipe_error, pipe_cause>>

\* a variant of the first request that answers a failed call with the
\* repair request
FirstRequestFallingBack ==
    /\ pipe_pc = "running"
    /\ attempt = "first"
    /\ requests' = Append(requests, [stage |-> stage, attempt |-> "first"])
    /\ last_prompt' = <<>>
    /\ \/ /\ attempt' = "repair"
          /\ first_response' = <<>>
          /\ UNCHANGED <<stage, results, pass3_result, returned,
                         pipe_error, pipe_cause, pipe_pc>>
       \/ \E text \in StageResponses(stage) :
              LET parsed == ParsedResponses[stack_frames][text]
              IN  IF parsed.ok THEN Accept(parsed.val)
                  ELSE IF parsed.error = "RecursionError"
                      THEN /\ first_response' = text
                           /\ pipe_pc' = "raised"
                           /\ pipe_error' = "RecursionError"
                           /\ pipe_cause' = "loads"
                           /\ UNCHANGED <<stage, attempt, results, pass3_result, returned>>
                  ELSE /\ attempt' = "repair"
                       /\ first_response' = text
                       /\ UNCHANGED <<stage, results, pass3_result, returned,
                                      pipe_error, pipe_cause, pipe_pc>>
    /\ UNCHANGED <<repaired_response, stack_frames>>
    /\ UNCHANGED <<injectVars, collapseVars, cleanVars, jsonVars, fetchVars, coreVars>>

\* llm_json, lines 102-107: the request of a stage and the first parse; the
\* except clause of line 109 takes json.JSONDecodeError and ValueError to the
\* repair request, and the RecursionError of json.loads leaves llm_json and
\* run_multipass, which has no handler
FirstRequest ==
    /\ pipe_pc = "running"
    /\ attempt = "first"
    /\ requests' = Append(requests, [stage |-> stage, attempt |-> "first"])
    /\ last_prompt' = <<>>
    /\ \/ \E cls \in GenerationErrors : Raise(cls, "generate_text")
       \/ \E text \in StageResponses(stage) :
              LET parsed == ParsedResponses[stack_frames][text]
              IN  IF parsed.ok THEN Accept(parsed.val)
                  ELSE IF parsed.error = "RecursionError"
                      THEN /\ first_response' = text
                           /\ pipe_pc' = "raised"
                           /\ pipe_error' = "RecursionError"
                           /\ pipe_cause' = "loads"
                           /\ UNCHANGED <<stage, attempt, results, pass3_result, returned>>
                  ELSE /\ attempt' = "repair"
                       /\ first_response' = text
                       /\ UNCHANGED <<stage, results, pass3_result, returned,
                                      pipe_error, pipe_cause, pipe_pc>>
    /\ UNCHANGED <<repaired_response, stack_frames>>
    /\ UNCHANGED <<injectVars, collapseVars, cleanVars, jsonVars, fetchVars, coreVars>>

\* llm_json, lines 109-129: the repair request and the second parse; the
\* except clause of line 128 raises Exception for json.JSONDecodeError and
\* ValueError, and the RecursionError of json.loads leaves as it is
RepairRequest ==
    /\ pipe_pc = "running"
    /\ attempt = "repair"
    /\ requests' = Append(requests, [stage |-> stage, attempt |-> "repair"])
    /\ last_prompt' = first_response
    /\ \/ \E cls \in GenerationErrors :
              Raise(cls, "generate_text") /\ UNCHANGED repaired_response
       \/ \E text \in StageResponses(stage) :
              LET parsed == ParsedResponses[stack_frames][text]
              IN  IF parsed.ok THEN Accept(parsed.val) /\ UNCHANGED repaired_response
                  ELSE /\ repaired_response' = text
                       /\ IF parsed.error = "RecursionError"
                              THEN Raise("RecursionError", "loads")
                              ELSE Raise("Exception", "llm_json")
    /\ UNCHANGED stack_frames
    /\ UNCHANGED <<injectVars, collapseVars, cleanVars, jsonVars, fetchVars, coreVars>>

NextPipeline == FirstRequest \/ RepairRequest

SpecPipeline == InitPipeline /\ [][NextPipeline]_vars

----------------------------------------------------------------------------
(* Claims about the orchestrator                                           *)

\* the slides and the judge report of the results record
StorySlides == Get(results, ResultKey(3), JNull).items
QualityReport == Get(results, ResultKey(4), JNull)

\* the repairs the judge report lists
ListedRepairs ==
    LET listed == Get(QualityReport, K_REPAIRED_SLIDES, JNull)
    IN  IF IsList(listed) THEN listed.items ELSE <<>>

\* the repair is an object that names position i by an integer
NamesPosition(repair, i) ==
    /\ IsDict(repair)
    /\ Get(repair, K_SLIDE, JNull) = JInt(i)

\* the repairs of a failing report that name position i, by their place in
\* the list
RepairsOf(i) ==
    {k \in 1..Len(ListedRepairs) :
        /\ Get(QualityReport, K_STATUS, JNull) = JStr(V_FAIL)
        /\ NamesPosition(ListedRepairs[k], i)}

\* an object whose position is an integer, or that has none
WellFormedRepair(repair) ==
    /\ IsDict(repair)
    /\ Get(repair, K_SLIDE, JNull).kind \in {"int", "null"}

\* C9: the slide sequence returned by run_multipass has the length and the
\* order of the stage-3 sequence; position i holds the Text and Prompt of a
\* repair exactly when the judge status is "fail" and a repair names i within
\* 1..length; every other position holds the stage-3 slide; and repairs that
\* name positions outside 1..length never make the run raise
C9_RepairApplication ==
    /\ pipe_pc = "returned" =>
           /\ returned = results
           /\ Len(StorySlides) = Len(pass3_result)
           /\ \A i \in 1..Len(StorySlides) :
                  IF RepairsOf(i) # {}
                  THEN StorySlides[i] = RepairedSlide(ListedRepairs[Max(RepairsOf(i))])
                  ELSE StorySlides[i] = pass3_result[i]
    /\ (pipe_pc = "raised" /\ pipe_cause = "repairs") =>
           \E k \in 1..Len(ListedRepairs) : ~WellFormedRepair(ListedRepairs[k])

\* a run that returned the longest slide sequence with its last slide
\* repaired, while a repair naming the position past the end was ignored
C9_Witness ==
    /\ pipe_pc = "returned"
    /\ Len(pass3_result) = MaxSlides
    /\ RepairsOf(Len(pass3_result)) # {}
    /\ StorySlides[Len(pass3_result)] # pass3_result[Len(pass3_result)]
    /\ \E k \in 1..Len(ListedRepairs) :
           NamesPosition(ListedRepairs[k], Len(pass3_result) + 1)

\* the attempts of the requests made for stage k, in order
AttemptsOf(k) ==
    LET of_stage == SelectSeq(requests, LAMBDA r : r.stage = k)
    IN  [n \in 1..Len(of_stage) |-> of_stage[n].attempt]

\* the latest request, when there is one
LastRequest == requests[Len(requests)]

\* one step of the run, as far as the requests of llm_json go: the step makes
\* one request; a repair request follows the first request of the same stage,
\* whose response did not extract or parse, and carries that response; after
\* a repair request the run never waits for the same stage again
RequestStep ==
    /\ Len(requests') = Len(requests) + 1
    /\ requests' = Append(requests, requests'[Len(requests')])
    /\ requests'[Len(requests')].stage = stage
    /\ IF attempt = "repair"
       THEN /\ requests'[Len(requests')].attempt = "repair"
            /\ first_response \in StageResponses(stage)
            /\ ~ParsedResponses[stack_frames][first_response].ok
            /\ last_prompt' = first_response
            /\ LastRequest = [stage |-> stage, attempt |-> "first"]
            /\ \/ pipe_pc' # "running"
               \/ stage' = stage + 1 /\ attempt' = "first"
       ELSE /\ requests'[Len(requests')].attempt = "first"
            /\ AttemptsOf(stage) = <<>>
            /\ attempt' = "repair" =>
                   /\ first_response' \in StageResponses(stage)
                   /\ ~ParsedResponses[stack_frames][first_response'].ok
                   /\ stage' = stage
                   /\ pipe_pc' = "running"
    /\ pipe_cause' = "llm_json" =>
           /\ attempt = "repair"
           /\ pipe_pc' = "raised"
           /\ pipe_error' = "Exception"
           /\ returned' = JNull

\* the first response of the stage was received and did not extract or parse:
\* first_response holds it from the step that received it
FirstUnparsed ==
    /\ first_response \in StageResponses(stage)
    /\ ~ParsedResponses[stack_frames][first_response].ok

\* the step that receives a first response that does not extract or parse
\* leaves the run waiting for the repair request of the same stage
UnparsedFirstStep ==
    (attempt = "first" /\ Len(requests') = Len(requests) + 1 /\ FirstUnparsed')
        => /\ attempt' = "repair"
           /\ stage' = stage
           /\ pipe_pc' = "running"

\* a run that is over after a first response that did not extract or parse
\* has made the repair request of that stage, two requests in all
UnparsedFirstRepaired ==
    (pipe_pc \in {"raised", "returned"} /\ FirstUnparsed)
        => AttemptsOf(stage) = <<"first", "repair">>

\* a repaired response that did not extract or parse either ended the run
\* with an exception, after two requests, and the caller got no value
UnparsedRepairRaises ==
    repaired_response # <<>>
        => /\ ~ParsedResponses[stack_frames][repaired_response].ok
           /\ pipe_pc = "raised"
           /\ pipe_error # "none"
           /\ returned = JNull
           /\ AttemptsOf(stage) = <<"first", "repair">>

\* C11: one llm_json call makes one request when the first response extracts
\* and parses and two when it does not, the second being the repair request
\* that carries the malformed response: every first response that does not
\* extract or parse is followed by the repair request; it never makes a
\* third; and when the repaired response fails too it raises and returns no
\* value
C11_BoundedJsonRepair ==
    /\ [][RequestStep]_vars
    /\ [][UnparsedFirstStep]_vars
    /\ []UnparsedFirstRepaired
    /\ []UnparsedRepairRaises
    /\ [](\A k \in 0..4 :
              AttemptsOf(k) \in {<<>>, <<"first">>, <<"first", "repair">>})

\* the shape that the output of stage k must have: an object for the
\* analysis, the story core and the judge report, a sequence for the beats
\* and the slides
HasStageShape(k, v) == IF k \in {2, 3} THEN IsList(v) ELSE IsDict(v)

\* the stages whose output the results record holds
StoredStages == {k \in 0..4 : Has(results, ResultKey(k))}

\* C12: an output that violates the shape of its stage is never stored or
\* returned: the run raises ValueError at that stage, the caller gets no
\* record (the outputs of the stages already completed stay in the run's own
\* record), and no generation call follows a raise
C12_ContractViolationFatal ==
    /\ [](\A k \in StoredStages : HasStageShape(k, Get(results, ResultKey(k), JNull)))
    /\ [](pipe_cause = "contract" =>
              /\ pipe_pc = "raised"
              /\ pipe_error = "ValueError"
              /\ StoredStages = 0..(stage - 1))
    /\ [](pipe_pc = "raised" => returned = JNull)
    /\ [](returned # JNull => pipe_pc = "returned" /\ StoredStages = 0..4)
    /\ [][pipe_pc = "running" /\ Len(requests') = Len(requests) + 1]_vars

\* a run that raised on the shape of the judge report, after four stages had
\* stored their outputs, and handed nothing to the caller
C12_Witness ==
    /\ pipe_cause = "contract"
    /\ stage = 4
    /\ StoredStages = 0..3
    /\ Len(StorySlides) = MaxSlides
    /\ returned = JNull

----------------------------------------------------------------------------
(* services/prompts.py: inject_all_story_variables                         *)

LBL_TARGET_LENGTH_CHARS == <<"T","A","R","G","E","T","_","L","E","N","G","T","H","_","C","H","A","R","S",":">>
PH_TARGET_LENGTH_CHARS == <<"{","{","T","A","R","G","E","T","_","L","E","N","G","T","H","_","C","H","A","R","S","}","}">>
LBL_SLIDE_COUNT == <<"S","L","I","D","E","_","C","O","U","N","T",":">>
PH_SLIDE_COUNT == <<"{","{","S","L","I","D","E","_","C","O","U","N","T","}","}">>
SLIDE_COUNT == <<"S","L","I","D","E","_","C","O","U","N","T">>
GLOBAL_HARD_RULES == <<"G","L","O","B","A","L"," ","H","A","R","D"," ","R","U","L","E","S">>

\* the words by which the automatic-slide-count instruction is recognised
CHOOSE_AUTOMATICALLY ==
    <<"C","h","o","o","s","e"," ","t","h","e"," ","n","u","m","b","e","r",
      " ","o","f"," ","s","l","i","d","e","s"," ","a","u","t","o","m","a",
      "t","i","c","a","l","l","y">>

\* the rest of the instruction
INSTRUCTION_REST ==
    <<" ","b","a","s","e","d"," ","o","n"," ","T","A","R","G","E","T","_",
      "L","E","N","G","T","H","_","C","H","A","R","S",".","\n","A","v","o",
      "i","d"," ","g","i","a","n","t"," ","b","l","o","c","k","s",";"," ",
      "b","r","e","a","k"," ","f","r","e","q","u","e","n","t","l","y"," ",
      "i","n","t","o"," ","s","h","o","r","t"," ","s","p","o","k","e","n",
      " ","s","l","i","d","e","s",".","\n","\n">>

\* the instruction as it is written under GLOBAL HARD RULES, and as a note
\* under the target length
InstructionRule == <<"\n">> \o CHOOSE_AUTOMATICALLY \o INSTRUCTION_REST
InstructionNote ==
    <<"\n","N","o","t","e",":"," ">> \o CHOOSE_AUTOMATICALLY \o INSTRUCTION_REST

\* f"TARGET_LENGTH_CHARS: {target_length_chars}\n\n"
TargetBlock(target) ==
    LBL_TARGET_LENGTH_CHARS \o <<" ">> \o IntText(target) \o <<"\n", "\n">>

\* re.sub(r'(HEADING[^\n]*\n)', "\\1" + inserted, text, count=1), for an
\* inserted text without escapes
InsertAfterHeading(text, heading, inserted) ==
    LET p == Find(text, heading, 0)
        nl == Find(text, <<"\n">>, p + Len(heading))
    IN  IF p = -1 \/ nl = -1 THEN text
        ELSE Take(text, nl + 1) \o inserted \o Drop(text, nl + 1)

\* the end of a match of \s*\n at offset off: the last line end of the
\* whitespace run that starts there, -1 when the run holds none
LineEndAfter(text, off) ==
    LET ends == {k \in (off + 1)..SkipSpace(text, off) : text[k] = "\n"}
    IN  IF ends = {} THEN -1 ELSE CHOOSE k \in ends : \A j \in ends : j <= k

\* the end of the match of (STORY_CORE:\s*\{[^}]*\}\s*\n) that starts at p,
\* -1 when there is none
BracedStoryCoreEnd(text, p) ==
    LET q == SkipSpace(text, p + Len(LBL_STORY_CORE))
        close == Find(text, <<"}">>, q + 1)
    IN  IF ~StartsWithAt(text, LBL_STORY_CORE, p) THEN -1
        ELSE IF q >= Len(text) \/ text[q + 1] # "{" \/ close = -1 THEN -1
        ELSE LineEndAfter(text, close + 1)

\* the end of the match of (TARGET_LENGTH_CHARS:\s*\d+\s*\n) that starts at p,
\* -1 when there is none
TargetLineEnd(text, p) ==
    LET q == SkipSpace(text, p + Len(LBL_TARGET_LENGTH_CHARS))
        stops == {k \in q..Len(text) : k = Len(text) \/ ~IsDigit(text[k + 1])}
        d == CHOOSE k \in stops : \A j \in stops : k <= j
    IN  IF ~StartsWithAt(text, LBL_TARGET_LENGTH_CHARS, p) \/ d = q THEN -1
        ELSE LineEndAfter(text, d)

\* re.sub(r'(STORY_CORE:\s*\{[^}]*\}\s*\n)',
\*        f"\\1TARGET_LENGTH_CHARS: {target_length_chars}\n\n", text, count=1):
\* the target block follows the leftmost match
InsertTargetAfterStoryCore(text, target) ==
    LET starts == {p \in 0..Len(text) : BracedStoryCoreEnd(text, p) # -1}
        first == CHOOSE p \in starts : \A j \in starts : p <= j
    IN  IF starts = {} THEN text
        ELSE Take(text, BracedStoryCoreEnd(text, first)) \o TargetBlock(target)
             \o Drop(text, BracedStoryCoreEnd(text, first))

\* re.sub(r'(TARGET_LENGTH_CHARS:\s*\d+\s*\n)', "\\1\nNote: ...", text,
\*        count=1): the note follows the leftmost match
InsertNoteAfterTarget(text) ==
    LET starts == {p \in 0..Len(text) : TargetLineEnd(text, p) # -1}
        first == CHOOSE p \in starts : \A j \in starts : p <= j
    IN  IF starts = {} THEN text
        ELSE Take(text, TargetLineEnd(text, first)) \o InstructionNote
             \o Drop(text, TargetLineEnd(text, first))

\* lines 209-222: the three placeholders
ReplacePlaceholders(text, story_core, target) ==
    LET value == IF IsBlank(story_core) THEN <<>> ELSE rstrip(story_core)
    IN  Replace(Replace(Replace(text, PH_STORY_CORE, value),
                        PH_TARGET_LENGTH_CHARS, IntText(target)),
                PH_SLIDE_COUNT, <<>>)

\* lines 226-248: the STORY_CORE block
InjectStoryCoreBlock(result, story_core) ==
    LET value == rstrip(story_core)
    IN  IF IsBlank(story_core) THEN result
        ELSE IF Contains(result, LBL_STORY_CORE)
            THEN SubLabeledBlock(result, LBL_STORY_CORE, FALSE, BracedBlock(value), 0)
        ELSE IF Contains(result, PH_STORY_CORE) THEN result
        ELSE IF Contains(result, INPUT_VARIABLES)
            THEN InsertAfterInputVariables(result, value)
        ELSE LBL_STORY_CORE \o BracedBlock(value) \o result

\* the exception lines 226-248 raise, "none" when they do not
InjectStoryCoreBlockError(result, story_core) ==
    IF IsBlank(story_core) \/ Contains(result, LBL_STORY_CORE)
           \/ Contains(result, PH_STORY_CORE) \/ ~Contains(result, INPUT_VARIABLES)
    THEN "none"
    ELSE TemplateError(AfterInputVariablesTemplate(rstrip(story_core)), 0, 1)

\* lines 250-289: the TARGET_LENGTH_CHARS block
InjectTargetBlock(result, target) ==
    IF Contains(result, LBL_TARGET_LENGTH_CHARS)
        THEN SubLabeledBlock(result, LBL_TARGET_LENGTH_CHARS, FALSE,
                             IntText(target) \o <<"\n", "\n">>, 0)
    ELSE IF Contains(result, PH_TARGET_LENGTH_CHARS) THEN result
    ELSE IF Contains(result, INPUT_VARIABLES)
        THEN IF Contains(result, LBL_STORY_CORE)
             THEN InsertTargetAfterStoryCore(result, target)
             ELSE InsertAfterHeading(result, INPUT_VARIABLES, TargetBlock(target))
    ELSE IF StartsWithAt(result, LBL_STORY_CORE, 0)
        THEN InsertTargetAfterStoryCore(result, target)
    ELSE TargetBlock(target) \o result

\* lines 291-294: every SLIDE_COUNT: block is removed
RemoveSlideCountBlock(result) ==
    IF Contains(result, LBL_SLIDE_COUNT)
    THEN SubLabeledBlockTemplate(result, LBL_SLIDE_COUNT, <<>>, 0)
    ELSE result

\* lines 296-315: the automatic-slide-count instruction
AddInstruction(result) ==
    IF Contains(result, CHOOSE_AUTOMATICALLY) \/ Contains(result, SLIDE_COUNT)
        THEN result
    ELSE IF Contains(result, GLOBAL_HARD_RULES)
        THEN InsertAfterHeading(result, GLOBAL_HARD_RULES, InstructionRule)
    ELSE IF Contains(result, LBL_TARGET_LENGTH_CHARS)
        THEN InsertNoteAfterTarget(result)
    ELSE result

\* the exception inject_all_story_variables raises, "none" when it returns
inject_all_story_variables_error(text, story_core, target) ==
    IF text = <<>> THEN "none"
    ELSE InjectStoryCoreBlockError(ReplacePlaceholders(text, story_core, target),
                                   story_core)

inject_all_story_variables(text, story_core, target) ==
    IF text = <<>> THEN text
    ELSE AddInstruction(RemoveSlideCountBlock(InjectTargetBlock(
             InjectStoryCoreBlock(ReplacePlaceholders(text, story_core, target),
                                  story_core),
             target)))

----------------------------------------------------------------------------
(* Specification: a story prompt text into which the story core and the    *)
(* target length are injected, every call made on the result of the last   *)

\* what a story template starts with
StoryHeads ==
    {<<>>,
     <<"I","N","P","U","T"," ","V","A","R","I","A","B","L","E","S",":","\n">>,
     <<"G","L","O","B","A","L"," ","H","A","R","D"," ","R","U","L","E","S",":","\n","r","\n">>,
     <<"I","N","P","U","T"," ","V","A","R","I","A","B","L","E","S">>}

\* the variable site a story template holds, if any
StorySites ==
    {<<>>,
     <<"S","T","O","R","Y","_","C","O","R","E",":","\n","o","l","d">>,
     <<"S","t","o","r","y",":"," ","{","{","S","T","O","R","Y","_","C","O","R","E","}","}">>,
     <<"T","A","R","G","E","T","_","L","E","N","G","T","H","_","C","H","A","R","S",":"," ","9">>,
     <<"L","e","n","g","t","h",":"," ","{","{","T","A","R","G","E","T","_","L","E","N","G","T","H","_","C","H","A","R","S","}","}">>,
     <<"S","L","I","D","E","_","C","O","U","N","T",":"," ","7">>,
     <<"S","l","i","d","e","s",":"," ","{","{","S","L","I","D","E","_","C","O","U","N","T","}","}">>}

\* what follows the site
StoryTails ==
    {<<>>,
     <<"\n","h","e","l","l","o">>,
     <<"\n","S","T","O","R","Y","_","C","O","R","E",":"," ","b">>}

StoryTemplates == {h \o b \o t : h \in StoryHeads, b \in StorySites, t \in StoryTails}

\* the story cores and the target lengths a call passes
StoryCores == {<<"x">>, <<" ">>, <<"C",":","\\","p">>}
Targets == {5, 40}

InitVariables ==
    /\ prompt_text \in StoryTemplates
    /\ prev_text = <<>>
    /\ base_text = <<>>
    /\ last_op = "none"
    /\ last_value = <<>>
    /\ prev_op = "none"
    /\ prev_value = <<>>
    /\ error = "none"
    /\ n_calls = 0
    /\ IdleCollapse
    /\ IdleClean
    /\ IdleJson
    /\ IdlePipe
    /\ IdleFetch
    /\ IdleCore

\* prompt_text = inject_all_story_variables(prompt_text, value, target)
InjectAllVariables ==
    \E value \in StoryCores, target \in Targets :
        /\ n_calls < MaxCalls
        /\ error' = inject_all_story_variables_error(prompt_text, value, target)
        /\ prompt_text' = IF error' = "none"
                          THEN inject_all_story_variables(prompt_text, value, target)
                          ELSE prompt_text
        /\ Recorded("all", value)

NextVariables == InjectAllVariables \/ InjectStoryCore \/ InjectSubtitles

SpecVariables == InitVariables /\ [][NextVariables]_vars

----------------------------------------------------------------------------
(* Claims about the resolution order of injection                          *)

\* inject_all_story_variables with the block rule of a variable left out when
\* the template holds the placeholder of that variable
PlaceholderFirst(text, story_core, target) ==
    LET replaced == ReplacePlaceholders(text, story_core, target)
        with_core == IF Contains(text, PH_STORY_CORE) THEN replaced
                     ELSE InjectStoryCoreBlock(replaced, story_core)
        with_target == IF Contains(text, PH_TARGET_LENGTH_CHARS) THEN with_core
                       ELSE InjectTargetBlock(with_core, target)
    IN  AddInstruction(RemoveSlideCountBlock(with_target))

\* C15: the first applicable rule wins: when the template holds the
\* double-brace placeholder of a variable, every occurrence is replaced by the
\* value and no other rule is applied for that variable, so that no labeled
\* block is rewritten or inserted for it; for inject_story_core_into_prompt,
\* for inject_subtitles_into_prompt and for each variable of
\* inject_all_story_variables
C15_FirstApplicableRuleWins ==
    /\ (/\ IsInjection(last_op)
        /\ ~IsBlank(last_value)
        /\ Contains(prev_text, PlaceholderOf(last_op)))
           => /\ error = "none"
              /\ prompt_text = Replace(prev_text, PlaceholderOf(last_op), rstrip(last_value))
    /\ (/\ last_op = "all"
        /\ ~IsBlank(last_value)
        /\ error = "none"
        /\ Contains(prev_text, PH_STORY_CORE) \/ Contains(prev_text, PH_TARGET_LENGTH_CHARS))
           => \E target \in Targets :
                  prompt_text = PlaceholderFirst(prev_text, last_value, target)

\* C17: inject_all_story_variables leaves no slide-count directive of a
\* non-empty template, neither the placeholder nor a SLIDE_COUNT: label; when
\* the template held neither a directive nor the automatic-slide-count
\* instruction the result holds the instruction exactly once; and a call never
\* adds a second copy
C17_SlideCountHandling ==
    (last_op = "all" /\ error = "none" /\ prev_text # <<>>) =>
        /\ ~Contains(prompt_text, PH_SLIDE_COUNT)
        /\ ~Contains(prompt_text, LBL_SLIDE_COUNT)
        /\ (/\ ~Contains(prev_text, PH_SLIDE_COUNT)
            /\ ~Contains(prev_text, LBL_SLIDE_COUNT)
            /\ ~Contains(prev_text, CHOOSE_AUTOMATICALLY))
               => CountOccurrences(prompt_text, CHOOSE_AUTOMATICALLY) = 1
        /\ Contains(prev_text, CHOOSE_AUTOMATICALLY)
               => CountOccurrences(prompt_text, CHOOSE_AUTOMATICALLY)
                      = CountOccurrences(prev_text, CHOOSE_AUTOMATICALLY)

\* where the second occurrence of a label starts, -1 when there is none
SecondLabel(text, label) ==
    LET first == Find(text, label, 0)
    IN  IF first = -1 THEN -1 ELSE Find(text, label, first + Len(label))

\* C16: the replacement of a labeled block is scoped to the first block: when
\* a template without placeholder holds the label twice or more, an injection
\* leaves the text from the second label on, every later block with that
\* label included, as it was
C16_FirstBlockOnly ==
    (/\ IsInjection(last_op)
     /\ error = "none"
     /\ ~IsBlank(last_value)
     /\ ~Contains(prev_text, PlaceholderOf(last_op))
     /\ SecondLabel(prev_text, LabelOf(last_op)) # -1)
        => LET later == Drop(prev_text, SecondLabel(prev_text, LabelOf(last_op)))
           IN  /\ Len(prompt_text) >= Len(later)
               /\ Drop(prompt_text, Len(prompt_text) - Len(later)) = later

----------------------------------------------------------------------------
(* Claims about the value the cleaner returns with its stats               *)

\* C18: with return_stats=True the cleaner returns a pair of the text and
\* its stats for every track, the empty one included, for which the text is
\* empty and every stat is zero; a caller that unpacks the pair, as
\* fetch_and_clean_subtitles does, never fails
C18_StatsPairForEveryTrack ==
    clean_pc \notin {"idle", "raw"} =>
        /\ clean_pc # "raised"
        /\ ReturnedWithStats(vtt, max_chars).kind = "tuple"
        /\ vtt = <<>> =>
               /\ clean_text = <<>>
               /\ clean_stats.clean_chars_before_dedupe = 0
               /\ clean_stats.clean_chars_after_dedupe = 0
               /\ clean_stats.removed_chars = 0

----------------------------------------------------------------------------
(* services/youtube_subtitles.py: extract_video_id                         *)

\* the class [a-zA-Z0-9_-]
IsIdChar(c) == IsAsciiWord(c) \/ c = "-"

\* ([a-zA-Z0-9_-]{11}) matches at off
IdAt(url, off) ==
    /\ off + 11 <= Len(url)
    /\ \A k \in 1..11 : IsIdChar(url[off + k])

P_WATCH_V == <<"y","o","u","t","u","b","e",".","c","o","m","/","w","a","t","c","h","?","v","=">>
P_SHORT == <<"y","o","u","t","u",".","b","e","/">>
P_EMBED == <<"y","o","u","t","u","b","e",".","c","o","m","/","e","m","b","e","d","/">>
P_WATCH == <<"y","o","u","t","u","b","e",".","c","o","m","/","w","a","t","c","h","?">>
P_V == <<"v","=">>

\* the first pattern matches at off: one of its three prefixes and the id
PrefixAt(url, off) ==
    {w \in {P_WATCH_V, P_SHORT, P_EMBED} :
         StartsWithAt(url, w, off) /\ IdAt(url, off + Len(w))}

\* the second pattern matches at off: the watch prefix, any characters of the
\* line, and v= with an id; the offsets at which the v= may stand
ParamAt(url, off) ==
    IF ~StartsWithAt(url, P_WATCH, off) THEN {}
    ELSE {j \in (off + Len(P_WATCH))..Len(url) :
              /\ StartsWithAt(url, P_V, j)
              /\ IdAt(url, j + 2)
              /\ \A k \in (off + Len(P_WATCH) + 1)..j : url[k] # "\n"}

\* extract_video_id(url), <<>> for None: re.search takes the leftmost match
\* of the first pattern, else of the second, whose greedy .* takes the last v=
extract_video_id(url) ==
    LET first == {i \in 0..Len(url) : PrefixAt(url, i) # {}}
        second == {i \in 0..Len(url) : ParamAt(url, i) # {}}
    IN  IF first # {}
        THEN LET i == CHOOSE k \in first : \A j \in first : k <= j
                 w == CHOOSE x \in PrefixAt(url, i) : TRUE
             IN  SubSeq(url, i + Len(w) + 1, i + Len(w) + 11)
        ELSE IF second # {}
        THEN LET i == CHOOSE k \in second : \A j \in second : k <= j
                 j == Max(ParamAt(url, i))
             IN  SubSeq(url, j + 3, j + 13)
        ELSE <<>>

----------------------------------------------------------------------------
(* services/youtube_subtitles.py: fetch_subtitles                          *)
(* services/generators.py: fetch_and_clean_subtitles                       *)

\* the characters U+0000..U+007F, which UTF-8 writes as one byte each
AsciiChars == {Chr(n) : n \in 0..127}

\* a byte of a file that is no part of a character, written as the decoder
\* hands it over with errors='surrogateescape': the code point U+DC00 + b
EscapedByte(b) == CharOf(56320 + b)
EscapedBytes == {EscapedByte(b) : b \in 128..255}

\* ord(c): a character above U+00FF is written "u" and its hexadecimal code
Ord(c) ==
    IF c \in {Chr(n) : n \in 0..255} THEN CHOOSE n \in 0..255 : Chr(n) = c
    ELSE LET digits == Len(c) - 1
         IN  CHOOSE n \in (16 ^ (digits - 1))..(16 ^ digits - 1) : CharOf(n) = c

\* c.encode('utf-8'), and the one byte of an escaped byte
Utf8Char(c) ==
    LET n == Ord(c)
    IN  IF n < 128 THEN <<n>>
        ELSE IF n < 2048 THEN <<192 + (n \div 64), 128 + (n % 64)>>
        ELSE IF c \in EscapedBytes THEN <<n - 56320>>
        ELSE IF n < 65536
            THEN <<224 + (n \div 4096), 128 + ((n \div 64) % 64), 128 + (n % 64)>>
        ELSE <<240 + (n \div 262144), 128 + ((n \div 4096) % 64),
               128 + ((n \div 64) % 64), 128 + (n % 64)>>

Utf8Len(c) == IF c \in AsciiChars THEN 1 ELSE Len(Utf8Char(c))

\* len(text.encode('utf-8'))
RECURSIVE ByteLen(_, _)
ByteLen(text, k) == IF k = 0 THEN 0 ELSE ByteLen(text, k - 1) + Utf8Len(text[k])

\* what a file holds from its byte n on: the characters that start there or
\* later, and before them the last bytes of a character that n cuts through
RECURSIVE FromByte(_, _, _)
FromByte(held, k, n) ==
    IF k > Len(held) THEN <<>>
    ELSE IF n <= 0 THEN SubSeq(held, k, Len(held))
    ELSE IF Utf8Len(held[k]) <= n THEN FromByte(held, k + 1, n - Utf8Len(held[k]))
    ELSE [j \in 1..(Utf8Len(held[k]) - n) |-> EscapedByte(Utf8Char(held[k])[n + j])]
             \o SubSeq(held, k + 1, Len(held))

\* read_text(encoding='utf-8') returns the text: every byte of the file is
\* part of a character
Decodable(text) == \A k \in 1..Len(text) : text[k] \notin EscapedBytes

\* load_from_cache returned a text that a condition takes as true: the file
\* exists, can be decoded (lines 43-46 of cache.py return None when it
\* cannot) and is not empty
Cached(file) == file.exists /\ file.text # <<>> /\ Decodable(file.text)

\* the first language of langs that is in available, "" when none is
FirstAvailable(langs, available) ==
    LET hits == {k \in 1..Len(langs) : langs[k] \in available}
    IN  IF hits = {} THEN ""
        ELSE langs[CHOOSE k \in hits : \A j \in hits : k <= j]

\* lines 128-161: the language and the kind of the track to download
SelectTrack(langs, prefer_manual, subtitles, auto_captions) ==
    LET manual == FirstAvailable(langs, subtitles)
        auto == FirstAvailable(langs, auto_captions)
    IN  IF prefer_manual
        THEN IF manual # "" THEN [lang |-> manual, source |-> "manual"]
             ELSE [lang |-> auto, source |-> "auto"]
        ELSE IF auto # "" THEN [lang |-> auto, source |-> "auto"]
             ELSE [lang |-> manual, source |-> "manual"]

\* lang_map.get(lang_mode, ["en", "uk", "ru"])
LangsOf(lang_mode) ==
    IF lang_mode \in {"en", "uk", "ru"} THEN <<lang_mode>>
    ELSE <<"en", "uk", "ru">>

LangText(lang) ==
    IF lang = "en" THEN <<"e","n">>
    ELSE IF lang = "uk" THEN <<"u","k">>
    ELSE <<"r","u">>

\* the track YouTube serves for a language and a kind
TrackOf(lang, source, what) ==
    IF what = "empty" THEN <<>>
    ELSE IF what = "header" THEN WEBVTT
    ELSE WEBVTT \o <<"\n","\n">> \o L_TIME \o <<"\n">>
             \o (IF source = "auto" THEN <<"d","xe9","j","xe0"," ">> ELSE <<>>)
             \o <<"h","i"," ">> \o LangText(lang)

\* the tmp directory after yt-dlp wrote <id>.<lang>.vtt
Written(files, lang, text) ==
    {f \in files : f.lang # lang} \cup {[lang |-> lang, text |-> text]}

\* the calls made on the same cache directory, by all sessions together
MaxFetchCalls == 3

U_WATCH == <<"h","t","t","p","s",":","/","/","w","w","w",".","y","o","u","t","u","b","e",".","c","o","m","/","w","a","t","c","h","?","v","=","d","Q","w","4","w","9","W","g","X","c","Q">>
U_SHORT_ID == <<"h","t","t","p","s",":","/","/","y","o","u","t","u",".","b","e","/","d","Q","w","4","w","9","W">>

Urls == {U_WATCH, U_SHORT_ID}
LangModes == {"auto", "uk"}
VideoLangs == {"en", "uk"}

\* the tracks the video may serve
VideoTracks ==
    {TrackOf(lang, source, what) : lang \in VideoLangs, source \in {"manual", "auto"},
                                   what \in {"text", "header", "empty"}}

\* Path.write_text: the file is opened, which empties it, and the bytes of
\* the text are written from its start when the file is closed; of the bytes
\* that another writer put there in between, those beyond the end of the
\* text stay
Overwritten(text, held) == text \o FromByte(held, 1, ByteLen(text, Len(text)))

\* the texts that are read from raw.vtt: a track, or a track written over
\* another when the file can then be decoded
CacheTexts ==
    VideoTracks \cup {written \in {Overwritten(text, held) : text, held \in VideoTracks} :
                          Decodable(written)}

\* for each of them what the cleaner returns
CleanedTracks == [raw \in CacheTexts |-> ReturnedWithStats(raw, MAX_SUBTITLE_CHARS)]

\* the video id of each URL
VideoIds == [url \in Urls |-> extract_video_id(url)]

\* the videos: one for every choice of the languages of its manual subtitles
\* and of its automatic captions, all tracks holding text, and one with
\* manual subtitles in both languages for every choice of what they hold
VideoCases ==
    {[subtitles |-> manual, auto_captions |-> auto,
      served |-> [lang \in VideoLangs |-> "text"]] :
         manual \in SUBSET VideoLangs, auto \in SUBSET VideoLangs}
    \cup {[subtitles |-> VideoLangs, auto_captions |-> {}, served |-> what] :
              what \in [VideoLangs -> {"text", "header", "empty"}]}

\* the videos that two sessions ask for at the same time: one with manual
\* subtitles in both languages, one with manual subtitles and automatic
\* captions in English, one whose Ukrainian track is empty, and one whose
\* English track holds the header only
SharedVideoCases ==
    {[subtitles |-> VideoLangs, auto_captions |-> {},
      served |-> [lang \in VideoLangs |-> "text"]],
     [subtitles |-> {"en"}, auto_captions |-> {"en"},
      served |-> [lang \in VideoLangs |-> "text"]],
     [subtitles |-> VideoLangs, auto_captions |-> {},
      served |-> [lang \in VideoLangs |-> IF lang = "uk" THEN "empty" ELSE "text"]],
     [subtitles |-> VideoLangs, auto_captions |-> {},
      served |-> [lang \in VideoLangs |-> IF lang = "en" THEN "header" ELSE "text"]]}

\* the runs: a video and the sessions that are open
RunCases ==
    {[video |-> video,
      sessions |-> IF video \in SharedVideoCases THEN Sessions ELSE {"A"}] :
         video \in VideoCases}

\* the arguments of the calls: every language mode, preference and use of
\* the cache for the URL of the video, and one call with a URL that holds no
\* video id
FetchCalls ==
    {[url |-> U_WATCH, lang_mode |-> lang_mode, prefer_manual |-> prefer_manual,
      use_cache |-> use_cache] :
         lang_mode \in LangModes, prefer_manual \in BOOLEAN, use_cache \in BOOLEAN}
    \cup {[url |-> U_SHORT_ID, lang_mode |-> "auto", prefer_manual |-> TRUE,
           use_cache |-> TRUE]}

\* what extract_info does: it answers, or fails with a DownloadError about
\* the rate limit, about subtitles or about something else, or with another
\* exception
InfoOutcomes == {"ok", "429", "subtitles", "other", "OSError"}

\* what download does: it writes the file, writes nothing, or fails as
\* extract_info does
DownloadOutcomes == {"wrote", "nothing", "429", "subtitles", "other", "OSError"}

\* lines 206-217: the class that reaches the caller, and the condition
NetError(err) ==
    IF err = "429" THEN [error |-> "Exception", cause |-> "rate_limit"]
    ELSE IF err = "subtitles" THEN [error |-> "ValueError", cause |-> "not_available"]
    ELSE IF err = "other" THEN [error |-> "Exception", cause |-> "download"]
    ELSE [error |-> err, cause |-> "yt_dlp"]

\* lines 48-54: the meta of the early return holds no stats
NoStats == [absent |-> TRUE]

\* lines 69-74: the stats of a text taken from the cache
CachedStats(text) ==
    [clean_chars_before_dedupe |-> Len(text),
     clean_chars_after_dedupe |-> Len(text),
     dedupe_ratio |-> [num |-> 1, den |-> 1],
     removed_chars |-> 0]

\* lines 128-161 for the call of session s
Selected(s) ==
    SelectTrack(LangsOf(fetch_call[s].lang_mode), fetch_call[s].prefer_manual,
                video_subtitles, video_auto_captions)

----------------------------------------------------------------------------
(* Specification: the calls of fetch_and_clean_subtitles for one video.    *)
(* Every session runs its calls one after another in a thread of its own;  *)
(* the files raw.vtt and clean.txt and the tmp directory of the video are  *)
(* shared. A call is a sequence of steps: each holds one access to the     *)
(* shared files, or one request to YouTube, and what the call computes     *)
(* before the next one; the steps of the sessions interleave.              *)

InitFetch ==
    /\ \E run \in RunCases :
           /\ video_subtitles = run.video.subtitles
           /\ video_auto_captions = run.video.auto_captions
           /\ served = run.video.served
           /\ open_sessions = run.sessions
    /\ cache_raw = NoFile
    /\ cache_clean = NoFile
    /\ tmp_files = {}
    /\ NoCalls
    /\ IdleInject
    /\ IdleCollapse
    /\ IdleClean
    /\ IdleJson
    /\ IdlePipe
    /\ IdleCore

\* the call of session s raises an exception of class cls
FetchRaise(s, cls, cause) ==
    /\ fetch_pc' = [fetch_pc EXCEPT ![s] = "idle"]
    /\ fetch_returned' = [fetch_returned EXCEPT ![s] = [kind |-> "null"]]
    /\ fetch_error' = [fetch_error EXCEPT ![s] = cls]
    /\ fetch_cause' = [fetch_cause EXCEPT ![s] = cause]
    /\ clean_cached' = [clean_cached EXCEPT ![s] = <<>>]
    /\ raw_vtt' = [raw_vtt EXCEPT ![s] = <<>>]
    /\ UNCHANGED last_success

\* the call of session s returns the tuple (raw_vtt, clean_text, meta)
FetchReturn(s, raw, clean, source, lang, stats) ==
    /\ fetch_pc' = [fetch_pc EXCEPT ![s] = "idle"]
    /\ fetch_returned' = [fetch_returned EXCEPT ![s] =
                              [kind |-> "tuple", raw_vtt |-> raw, clean_text |-> clean,
                               video_id |-> VideoIds[fetch_call[s].url],
                               source |-> source, lang |-> lang,
                               lang_mode |-> fetch_call[s].lang_mode, stats |-> stats]]
    /\ clean_cached' = [clean_cached EXCEPT ![s] = <<>>]
    /\ raw_vtt' = [raw_vtt EXCEPT ![s] = <<>>]
    /\ last_success' = [kind |-> "tuple", raw_vtt |-> raw, clean_text |-> clean]
    /\ UNCHANGED <<fetch_error, fetch_cause>>

\* the call of session s goes on to the step pc, holding the raw track raw
FetchGoto(s, pc, raw) ==
    /\ fetch_pc' = [fetch_pc EXCEPT ![s] = pc]
    /\ clean_cached' = [clean_cached EXCEPT ![s] = <<>>]
    /\ raw_vtt' = [raw_vtt EXCEPT ![s] = raw]
    /\ UNCHANGED <<fetch_returned, fetch_error, fetch_cause, last_success>>

\* generators.py lines 11-41: session s calls fetch_and_clean_subtitles(url,
\* lang_mode, prefer_manual, use_cache), and with use_cache the call reads
\* clean.txt; youtube_subtitles.py lines 59-71 and 100-103 when it goes on to
\* ask YouTube
FetchCall(s) ==
    \E call \in FetchCalls :
        /\ s \in open_sessions
        /\ fetch_pc[s] = "idle"
        /\ n_fetch_calls < MaxFetchCalls
        /\ n_fetch_calls' = n_fetch_calls + 1
        /\ fetch_call' = [fetch_call EXCEPT ![s] = call]
        /\ fetched' = [fetched EXCEPT ![s] = FALSE]
        /\ known_success' = [known_success EXCEPT ![s] = last_success]
        /\ IF VideoIds[call.url] = <<>>
           THEN FetchRaise(s, "ValueError", "url")
           ELSE /\ fetch_pc' = [fetch_pc EXCEPT ![s] =
                                    IF ~call.use_cache THEN "extract_info"
                                    ELSE IF Cached(cache_clean) THEN "load_raw"
                                    ELSE "check_cache"]
                /\ clean_cached' = [clean_cached EXCEPT ![s] =
                                        IF call.use_cache /\ Cached(cache_clean)
                                        THEN cache_clean.text ELSE <<>>]
                /\ raw_vtt' = [raw_vtt EXCEPT ![s] = <<>>]
                /\ fetch_returned' = [fetch_returned EXCEPT ![s] = [kind |-> "null"]]
                /\ fetch_error' = [fetch_error EXCEPT ![s] = "none"]
                /\ fetch_cause' = [fetch_cause EXCEPT ![s] = "none"]
                /\ UNCHANGED last_success
        /\ UNCHANGED <<video_subtitles, video_auto_captions, served, open_sessions>>
        /\ UNCHANGED <<cache_raw, cache_clean, tmp_files>>
        /\ UNCHANGED <<injectVars, collapseVars, cleanVars, jsonVars, pipeVars, coreVars>>

\* generators.py lines 42-55: clean.txt held a text; the call reads raw.vtt
\* and returns both when it holds one too
LoadRaw(s) ==
    /\ fetch_pc[s] = "load_raw"
    /\ IF Cached(cache_raw)
       THEN FetchReturn(s, cache_raw.text, clean_cached[s], "cache", "unknown", NoStats)
       ELSE FetchGoto(s, "check_cache", <<>>)
    /\ UNCHANGED <<fetch_call, fetched, known_success, n_fetch_calls>>
    /\ UNCHANGED <<video_subtitles, video_auto_captions, served, open_sessions>>
    /\ UNCHANGED <<cache_raw, cache_clean, tmp_files>>
    /\ UNCHANGED <<injectVars, collapseVars, cleanVars, jsonVars, pipeVars, coreVars>>

\* generators.py line 58, youtube_subtitles.py lines 72-103: fetch_subtitles
\* with use_cache reads both files and returns the text of raw.vtt when it
\* holds one, whatever clean.txt holds
CheckCache(s) ==
    /\ fetch_pc[s] = "check_cache"
    /\ IF Cached(cache_raw)
       THEN FetchGoto(s, "load_clean", cache_raw.text)
       ELSE FetchGoto(s, "extract_info", <<>>)
    /\ UNCHANGED <<fetch_call, fetched, known_success, n_fetch_calls>>
    /\ UNCHANGED <<video_subtitles, video_auto_captions, served, open_sessions>>
    /\ UNCHANGED <<cache_raw, cache_clean, tmp_files>>
    /\ UNCHANGED <<injectVars, collapseVars, cleanVars, jsonVars, pipeVars, coreVars>>

\* youtube_subtitles.py lines 105-164 and 206-217: extract_info answers or
\* fails, and the track is selected from its answer
ExtractInfo(s) ==
    /\ fetch_pc[s] = "extract_info"
    /\ fetched' = [fetched EXCEPT ![s] = TRUE]
    /\ \E outcome \in InfoOutcomes :
           IF outcome # "ok"
           THEN FetchRaise(s, NetError(outcome).error, NetError(outcome).cause)
           ELSE IF Selected(s).lang = ""
           THEN FetchRaise(s, "ValueError", "not_available")
           ELSE FetchGoto(s, "download", <<>>)
    /\ UNCHANGED <<fetch_call, known_success, n_fetch_calls>>
    /\ UNCHANGED <<video_subtitles, video_auto_captions, served, open_sessions>>
    /\ UNCHANGED <<cache_raw, cache_clean, tmp_files>>
    /\ UNCHANGED <<injectVars, collapseVars, cleanVars, jsonVars, pipeVars, coreVars>>

\* youtube_subtitles.py lines 166-183 and 206-217: download writes the track
\* into the tmp directory, writes nothing, or fails with a DownloadError or
\* with another exception
Download(s) ==
    /\ fetch_pc[s] = "download"
    /\ \E outcome \in DownloadOutcomes :
           IF outcome \notin {"wrote", "nothing"}
           THEN /\ FetchRaise(s, NetError(outcome).error, NetError(outcome).cause)
                /\ UNCHANGED tmp_files
           ELSE /\ FetchGoto(s, "read_vtt", <<>>)
                /\ tmp_files' =
                       IF outcome = "wrote"
                       THEN Written(tmp_files, Selected(s).lang,
                                    TrackOf(Selected(s).lang, Selected(s).source,
                                            served[Selected(s).lang]))
                       ELSE tmp_files
    /\ UNCHANGED <<fetch_call, fetched, known_success, n_fetch_calls>>
    /\ UNCHANGED <<video_subtitles, video_auto_captions, served, open_sessions>>
    /\ UNCHANGED <<cache_raw, cache_clean>>
    /\ UNCHANGED <<injectVars, collapseVars, cleanVars, jsonVars, pipeVars, coreVars>>

\* youtube_subtitles.py lines 185-190: the call reads the file that
\* tmp_dir.glob("*.vtt") lists first, any of those in the directory
ReadVtt(s) ==
    /\ fetch_pc[s] = "read_vtt"
    /\ IF tmp_files = {}
       THEN FetchRaise(s, "ValueError", "no_file")
       ELSE \E file \in tmp_files : FetchGoto(s, "open_raw", file.text)
    /\ UNCHANGED <<fetch_call, fetched, known_success, n_fetch_calls>>
    /\ UNCHANGED <<video_subtitles, video_auto_captions, served, open_sessions>>
    /\ UNCHANGED <<cache_raw, cache_clean, tmp_files>>
    /\ UNCHANGED <<injectVars, collapseVars, cleanVars, jsonVars, pipeVars, coreVars>>

\* youtube_subtitles.py line 193: save_to_cache opens raw.vtt
OpenRaw(s) ==
    /\ fetch_pc[s] = "open_raw"
    /\ cache_raw' = File(<<>>)
    /\ FetchGoto(s, "write_raw", raw_vtt[s])
    /\ UNCHANGED <<fetch_call, fetched, known_success, n_fetch_calls>>
    /\ UNCHANGED <<video_subtitles, video_auto_captions, served, open_sessions>>
    /\ UNCHANGED <<cache_clean, tmp_files>>
    /\ UNCHANGED <<injectVars, collapseVars, cleanVars, jsonVars, pipeVars, coreVars>>

\* youtube_subtitles.py lines 193-204, generators.py lines 60-63 and 79-81:
\* save_to_cache writes raw.vtt, and the track is cleaned
WriteRaw(s) ==
    /\ fetch_pc[s] = "write_raw"
    /\ cache_raw' = File(Overwritten(raw_vtt[s], cache_raw.text))
    /\ IF ~Unpacks(CleanedTracks[raw_vtt[s]])
       THEN FetchRaise(s, "ValueError", "unpack")
       ELSE FetchGoto(s, "open_clean", raw_vtt[s])
    /\ UNCHANGED <<fetch_call, fetched, known_success, n_fetch_calls>>
    /\ UNCHANGED <<video_subtitles, video_auto_captions, served, open_sessions>>
    /\ UNCHANGED <<cache_clean, tmp_files>>
    /\ UNCHANGED <<injectVars, collapseVars, cleanVars, jsonVars, pipeVars, coreVars>>

\* generators.py lines 60-77 and 84-93: the track came from raw.vtt; the
\* call reads clean.txt and returns its text when it holds one, else it
\* cleans the track
LoadClean(s) ==
    /\ fetch_pc[s] = "load_clean"
    /\ IF Cached(cache_clean)
       THEN FetchReturn(s, raw_vtt[s], cache_clean.text, "cache", "unknown",
                        CachedStats(cache_clean.text))
       ELSE IF ~Unpacks(CleanedTracks[raw_vtt[s]])
       THEN FetchRaise(s, "ValueError", "unpack")
       ELSE FetchGoto(s, "open_clean", raw_vtt[s])
    /\ UNCHANGED <<fetch_call, fetched, known_success, n_fetch_calls>>
    /\ UNCHANGED <<video_subtitles, video_auto_captions, served, open_sessions>>
    /\ UNCHANGED <<cache_raw, cache_clean, tmp_files>>
    /\ UNCHANGED <<injectVars, collapseVars, cleanVars, jsonVars, pipeVars, coreVars>>

\* generators.py lines 78 and 82: save_to_cache opens clean.txt
OpenClean(s) ==
    /\ fetch_pc[s] = "open_clean"
    /\ cache_clean' = File(<<>>)
    /\ FetchGoto(s, "write_clean", raw_vtt[s])
    /\ UNCHANGED <<fetch_call, fetched, known_success, n_fetch_calls>>
    /\ UNCHANGED <<video_subtitles, video_auto_captions, served, open_sessions>>
    /\ UNCHANGED <<cache_raw, tmp_files>>
    /\ UNCHANGED <<injectVars, collapseVars, cleanVars, jsonVars, pipeVars, coreVars>>

\* generators.py lines 78, 82 and 84-93: save_to_cache writes clean.txt and
\* the call returns; the meta names the selected track, or the cache when
\* the track came from raw.vtt
WriteClean(s) ==
    /\ fetch_pc[s] = "write_clean"
    /\ \E value \in {CleanedTracks[raw_vtt[s]]} :
           /\ cache_clean' = File(Overwritten(value.text, cache_clean.text))
           /\ IF fetched[s]
              THEN FetchReturn(s, raw_vtt[s], value.text, Selected(s).source,
                               Selected(s).lang, value.stats)
              ELSE FetchReturn(s, raw_vtt[s], value.text, "cache", "unknown", value.stats)
    /\ UNCHANGED <<fetch_call, fetched, known_success, n_fetch_calls>>
    /\ UNCHANGED <<video_subtitles, video_auto_captions, served, open_sessions>>
    /\ UNCHANGED <<cache_raw, tmp_files>>
    /\ UNCHANGED <<injectVars, collapseVars, cleanVars, jsonVars, pipeVars, coreVars>>

NextFetch ==
    \E s \in Sessions :
        \/ FetchCall(s)
        \/ LoadRaw(s)
        \/ CheckCache(s)
        \/ ExtractInfo(s)
        \/ Download(s)
        \/ ReadVtt(s)
        \/ OpenRaw(s)
        \/ WriteRaw(s)
        \/ LoadClean(s)
        \/ OpenClean(s)
        \/ WriteClean(s)

SpecFetch == InitFetch /\ [][NextFetch]_vars

----------------------------------------------------------------------------
(* Claims about the error conditions                                       *)

\* C19: error conditions are distinguishable by kind: an unparseable video
\* URL and a video with no subtitle track matching the request reach the
\* caller as exceptions of different classes, so that the caller can tell
\* them apart without reading the message
C19_ErrorKindsDistinct ==
    \A s, t \in Sessions :
        (fetch_cause[s] = "url" /\ fetch_cause[t] = "not_available")
            => fetch_error[s] # fetch_error[t]

----------------------------------------------------------------------------
(* services/generators.py: generate_story_core                             *)
(* Specification: one run that generates text, either run_multipass or     *)
(* generate_story_core                                                     *)

\* the story-core prompt file: absent, with the block to fill, without it
CoreTemplates ==
    {NoFile,
     File(<<"O","R","I","G","I","N","A","L","_","S","T","O","R","Y",":","\n","o","l","d","\n","C","O","R","E"," ","O","B","J","E","C","T","I","V","E","\n","z">>),
     File(<<"O","R","I","G","I","N","A","L","_","S","T","O","R","Y",":","\n","o","l","d">>),
     File(<<"h","e","l","l","o">>)}

\* the clean subtitles a call is given
CoreSubtitles == {<<"x">>, <<"a","\n","b">>, <<" ">>}

\* the texts generate_text returns
CoreResponses == {<<"c","o","r","e">>, <<>>}

InitStoryCore ==
    /\ template_file \in CoreTemplates
    /\ clean_subtitles \in CoreSubtitles
    /\ core_requests = <<>>
    /\ core_returned = [kind |-> "null"]
    /\ core_error = "none"
    /\ core_cause = "none"
    /\ core_pc = "called"
    /\ IdleInject
    /\ IdleCollapse
    /\ IdleClean
    /\ IdleJson
    /\ IdlePipe
    /\ IdleFetch

\* the call raises an exception of class cls
CoreRaise(cls, cause) ==
    /\ core_pc' = "raised"
    /\ core_error' = cls
    /\ core_cause' = cause
    /\ UNCHANGED core_returned

\* a variant that falls back to a built-in template when the file is absent
GenerateStoryCoreDefaulting ==
    /\ core_pc = "called"
    /\ LET template == IF template_file.exists THEN template_file.text
                       ELSE LBL_ORIGINAL_STORY \o <<"\n">> \o CORE_OBJECTIVE
       IN  IF fill_story_core_error(template, clean_subtitles) # "none"
           THEN /\ CoreRaise("ValueError", "fill_story_core_prompt")
                /\ UNCHANGED core_requests
           ELSE LET filled_prompt == fill_story_core_prompt(template, clean_subtitles)
                IN  /\ core_requests' = Append(core_requests, filled_prompt)
                    /\ \/ \E cls \in GenerationErrors : CoreRaise(cls, "generate_text")
                       \/ \E story_core_output \in CoreResponses :
                              /\ core_returned' = [kind |-> "tuple",
                                                   filled_prompt |-> filled_prompt,
                                                   story_core_output |-> story_core_output]
                              /\ core_pc' = "returned"
                              /\ UNCHANGED <<core_error, core_cause>>
    /\ UNCHANGED <<template_file, clean_subtitles>>
    /\ UNCHANGED <<injectVars, collapseVars, cleanVars, jsonVars, pipeVars, fetchVars>>

\* generate_story_core(clean_subtitles)
GenerateStoryCore ==
    /\ core_pc = "called"
    /\ IF ~template_file.exists
       THEN /\ CoreRaise("FileNotFoundError", "load_prompt_file")
            /\ UNCHANGED core_requests
       ELSE IF fill_story_core_error(template_file.text, clean_subtitles) # "none"
       THEN /\ CoreRaise("ValueError", "fill_story_core_prompt")
            /\ UNCHANGED core_requests
       ELSE LET filled_prompt == fill_story_core_prompt(template_file.text, clean_subtitles)
            IN  /\ core_requests' = Append(core_requests, filled_prompt)
                /\ \/ \E cls \in GenerationErrors : CoreRaise(cls, "generate_text")
                   \/ \E story_core_output \in CoreResponses :
                          /\ core_returned' = [kind |-> "tuple",
                                               filled_prompt |-> filled_prompt,
                                               story_core_output |-> story_core_output]
                          /\ core_pc' = "returned"
                          /\ UNCHANGED <<core_error, core_cause>>
    /\ UNCHANGED <<template_file, clean_subtitles>>
    /\ UNCHANGED <<injectVars, collapseVars, cleanVars, jsonVars, pipeVars, fetchVars>>

InitGeneration == InitPipeline \/ InitStoryCore

NextGeneration == FirstRequest \/ RepairRequest \/ GenerateStoryCore

SpecGeneration == InitGeneration /\ [][NextGeneration]_vars

----------------------------------------------------------------------------
(* Claims about failed generation calls                                    *)

\* the step issues a repair request
RepairAdded ==
    /\ Len(requests') = Len(requests) + 1
    /\ requests'[Len(requests')].attempt = "repair"

\* C20: generation failures are never retried: when generate_text fails, on
\* the first request of a stage, on its repair request or on the single
\* request of generate_story_core, the exception reaches the caller and the
\* run makes no further generate_text call; the repair request of a stage is
\* the only second attempt, and it is made only for a response that was
\* received and could not be parsed, never for a failed call
C20_GenerationNeverRetried ==
    /\ [](pipe_cause = "generate_text" => (pipe_pc = "raised" /\ pipe_error \in GenerationErrors))
    /\ [](core_cause = "generate_text" => (core_pc = "raised" /\ core_error \in GenerationErrors))
    /\ [][(pipe_cause = "generate_text" \/ core_cause = "generate_text")
              => (requests' = requests /\ core_requests' = core_requests)]_vars
    /\ [](Len(core_requests) <= 1)
    /\ [](\A k \in 0..4 : AttemptsOf(k) \in {<<>>, <<"first">>, <<"first", "repair">>})
    /\ [][RepairAdded => /\ attempt = "repair"
                         /\ pipe_error = "none"
                         /\ LastRequest = [stage |-> stage, attempt |-> "first"]
                         /\ first_response \in StageResponses(stage)
                         /\ ~ParsedResponses[stack_frames][first_response].ok]_vars

\* generate_text failed on the repair request of a stage
C20_Witness ==
    /\ pipe_pc = "raised"
    /\ pipe_cause = "generate_text"
    /\ Len(requests) >= 2
    /\ LastRequest.attempt = "repair"

----------------------------------------------------------------------------
(* Claims about the track selection                                        *)

\* the positions of the requested languages that the video has in a kind
ListedIn(call, kind) ==
    LET langs == LangsOf(call.lang_mode)
        available == IF kind = "manual" THEN video_subtitles ELSE video_auto_captions
    IN  {k \in 1..Len(langs) : langs[k] \in available}

PreferredKind(call) == IF call.prefer_manual THEN "manual" ELSE "auto"
OtherKind(call) == IF call.prefer_manual THEN "auto" ELSE "manual"

\* the kind the selection has to take: the preferred one when it has a
\* requested language, else the other
DueKind(call) ==
    IF ListedIn(call, PreferredKind(call)) # {} THEN PreferredKind(call) ELSE OtherKind(call)

\* the language it has to take: the first requested one of that kind
DueLang(call) ==
    LET listed == ListedIn(call, DueKind(call))
    IN  LangsOf(call.lang_mode)[CHOOSE k \in listed : \A j \in listed : k <= j]

NoneListed(call) == ListedIn(call, "manual") = {} /\ ListedIn(call, "auto") = {}

\* the step is one of the call that session s is running
CallStep(s) == fetch_pc[s] # "idle" /\ fetch_pc'[s] # fetch_pc[s]

\* the meta of a call that asked YouTube and returned names the due track
MetaNamesDueTrack ==
    \A s \in Sessions :
        (fetched[s] /\ fetch_returned[s].kind = "tuple") =>
            /\ ~NoneListed(fetch_call[s])
            /\ fetch_returned[s].source = DueKind(fetch_call[s])
            /\ fetch_returned[s].lang = DueLang(fetch_call[s])

\* the raw track it returned is the one YouTube serves as the due track
ReturnsDueTrack ==
    \A s \in Sessions :
        (fetched[s] /\ fetch_returned[s].kind = "tuple") =>
            fetch_returned[s].raw_vtt
                = TrackOf(DueLang(fetch_call[s]), DueKind(fetch_call[s]),
                          served[DueLang(fetch_call[s])])

\* a call that asked YouTube for a video that has no requested language in
\* either kind has raised
NoneListedRaises ==
    \A s \in Sessions :
        (fetched[s] /\ NoneListed(fetch_call[s])) =>
            /\ fetch_pc[s] = "idle"
            /\ fetch_error[s] # "none"
            /\ fetch_cause[s] \in {"not_available", "rate_limit", "download", "yt_dlp"}
            /\ fetch_cause[s] = "not_available" => fetch_error[s] = "ValueError"

\* and its steps leave the tmp directory and the cache files as they were
NoneListedWritesNothing ==
    \A s \in Sessions :
        (CallStep(s) /\ fetched'[s] /\ NoneListed(fetch_call[s]))
            => UNCHANGED <<tmp_files, cache_raw, cache_clean>>

\* C21: when fetch_subtitles asks YouTube (no cache hit), the selected track
\* is the first language of the ordered list that the preferred kind has
\* (manual when prefer_manual, automatic otherwise), and only when that kind
\* has none of them the first one the other kind has: the call returns that
\* track and names it in its meta; when neither kind has a requested
\* language the call raises (the not-available ValueError, unless
\* extract_info failed before) and nothing is downloaded or cached
C21_TrackSelectionOrder ==
    /\ []MetaNamesDueTrack
    /\ []ReturnsDueTrack
    /\ []NoneListedRaises
    /\ [][NoneListedWritesNothing]_vars

----------------------------------------------------------------------------
(* Claims about generate_story_core                                        *)

\* C22: a missing story-core template is fatal and not defaulted:
\* generate_story_core raises when the template file is absent, and then, as
\* when fill_story_core_prompt fails, it makes no generation call; when it
\* returns it has made exactly one generation call, with the filled prompt
C22_MissingTemplateFatal ==
    core_pc \in {"returned", "raised"} =>
        /\ ~template_file.exists =>
               /\ core_pc = "raised"
               /\ core_error = "FileNotFoundError"
               /\ core_returned = [kind |-> "null"]
               /\ core_requests = <<>>
        /\ (/\ template_file.exists
            /\ fill_story_core_error(template_file.text, clean_subtitles) # "none") =>
               /\ core_pc = "raised"
               /\ core_error = "ValueError"
               /\ core_requests = <<>>
        /\ core_pc = "returned" =>
               /\ core_requests = <<core_returned.filled_prompt>>
               /\ core_returned.filled_prompt
                      = fill_story_core_prompt(template_file.text, clean_subtitles)
        /\ Len(core_requests) <= 1

\* a call that found no template file, raised and asked for no generation
C22_Witness ==
    /\ core_pc = "raised"
    /\ ~template_file.exists
    /\ core_cause = "load_prompt_file"
    /\ core_requests = <<>>

----------------------------------------------------------------------------
(* Claims about the order of the stages                                    *)

\* the number of first requests among the first i requests
FirstsUpTo(i) == Cardinality({j \in 1..i : requests[j].attempt = "first"})

\* the value the results record holds for stage k
StoredOutput(k) == Get(results, ResultKey(k), JNull)

\* C23: the requests go through the stages 0..4 in order: every first request
\* is for the stage after the one of the first request before it, starting
\* with stage 0, and a repair request is for the stage of the first request
\* before it, so no stage is skipped or repeated; a request for a stage is
\* made only when every earlier stage has stored a parsed output that passes
\* its type check; a run that returned made requests for all five stages and
\* one first request for the judge; and once the judge report is stored the
\* run has ended, by its return or by an error of the repairs, and no request
\* follows
C23_StageOrdering ==
    /\ [](\A i \in 1..Len(requests) :
              /\ requests[i].stage \in 0..4
              /\ requests[i].stage = FirstsUpTo(i) - 1)
    /\ [](requests # <<>> =>
              \A k \in 0..(LastRequest.stage - 1) :
                  /\ k \in StoredStages
                  /\ StageContract(k, StoredOutput(k)))
    /\ [](pipe_pc = "returned" =>
              /\ \A k \in 0..4 : AttemptsOf(k) # <<>>
              /\ Cardinality({n \in 1..Len(AttemptsOf(4)) :
                                  AttemptsOf(4)[n] = "first"}) = 1)
    /\ [](4 \in StoredStages =>
              /\ pipe_pc \in {"returned", "raised"}
              /\ pipe_cause \in {"none", "repairs"}
              /\ LastRequest.stage = 4)
    /\ [][4 \in StoredStages => requests' = requests]_vars

\* a run that returned after the judge, asked twice, reported a failure whose
\* repairs were applied
C23_Witness ==
    /\ pipe_pc = "returned"
    /\ [n \in 1..Len(requests) |-> requests[n].stage] \in
           {<<0, 1, 2, 3, 4, 4>>}
    /\ AttemptsOf(4) = <<"first", "repair">>
    /\ RepairsRequested(QualityReport)
    /\ StorySlides # pass3_result

----------------------------------------------------------------------------
(* Claims about the shape of the slides                                    *)

\* a record that holds both the Text and the Prompt field
HoldsBothFields(slide) ==
    /\ IsDict(slide)
    /\ Has(slide, K_TEXT)
    /\ Has(slide, K_PROMPT)

\* C24: the output of stage 3 is stored only when it is a sequence whose every
\* element is a record that holds both Text and Prompt; a run that raised on
\* the type check of stage 3 stored no slides and made no request to the
\* judge, and the judge is asked only once the slides are stored; and every
\* slide of a returned record, replaced by a repair or not, holds both fields
C24_SlideShape ==
    /\ 3 \in StoredStages =>
           /\ IsList(StoredOutput(3))
           /\ \A n \in 1..Len(StorySlides) : HoldsBothFields(StorySlides[n])
           /\ \A n \in 1..Len(pass3_result) : HoldsBothFields(pass3_result[n])
    /\ (pipe_cause = "contract" /\ stage = 3) =>
           /\ pipe_pc = "raised"
           /\ 3 \notin StoredStages
           /\ AttemptsOf(4) = <<>>
    /\ AttemptsOf(4) # <<>> => 3 \in StoredStages
    /\ pipe_pc = "returned" =>
           /\ IsList(Get(returned, ResultKey(3), JNull))
           /\ \A n \in 1..Len(Get(returned, ResultKey(3), JNull).items) :
                  HoldsBothFields(Get(returned, ResultKey(3), JNull).items[n])

\* a run that returned after a repair that carries neither Text nor Prompt
\* replaced the first slide, which holds both fields with empty values
C24_Witness ==
    /\ pipe_pc = "returned"
    /\ Len(pass3_result) >= 1
    /\ \E k \in 1..Len(ListedRepairs) :
           /\ NamesPosition(ListedRepairs[k], 1)
           /\ ~Has(ListedRepairs[k], K_TEXT)
           /\ ~Has(ListedRepairs[k], K_PROMPT)
    /\ Get(returned, ResultKey(3), JNull).items[1] =
           JDict(<<K_TEXT, K_PROMPT>>, <<JStr(<<>>), JStr(<<>>)>>)

----------------------------------------------------------------------------
(* Claims about the insertion of a new labeled block                       *)

\* the labeled block that holds the value as the injectors write it
NewBlock(op, value) == LabelOf(op) \o <<"\n", "{">> \o rstrip(value) \o <<"}">>

\* where the new block of the injector is to go in the text: after the line
\* of the INPUT VARIABLES header, else at the top, for STORY_CORE; before the
\* CORE OBJECTIVE header, else at the end, for ORIGINAL_STORY
InsertionPoint(op, text) ==
    LET header == Find(text, INPUT_VARIABLES, 0)
        line_end == Find(text, <<"\n">>, header)
        objective == Find(text, CORE_OBJECTIVE, 0)
    IN  IF op = "story_core"
        THEN IF header = -1 THEN 0
             ELSE IF line_end = -1 THEN Len(text) ELSE line_end + 1
        ELSE IF objective = -1 THEN Len(text) ELSE objective

\* result is text with one block put in at offset k, between whitespace
InsertedAt(text, result, block, k) ==
    LET middle == SubSeq(result, k + 1, Len(result) - (Len(text) - k))
        at == Find(middle, block, 0)
    IN  /\ Len(result) >= Len(text) + Len(block)
        /\ Take(result, k) = Take(text, k)
        /\ Drop(result, Len(result) - (Len(text) - k)) = Drop(text, k)
        /\ at # -1
        /\ \A n \in 1..Len(middle) :
               (n <= at \/ n > at + Len(block)) => IsSpace(middle[n])

\* C25: when the template holds neither the placeholder nor the label of the
\* injector, the injection of a non-blank value does not raise and returns
\* the template with one new labeled block that holds the value, put in after
\* the line of the INPUT VARIABLES header or else at the top for STORY_CORE,
\* before the CORE OBJECTIVE header or else at the end for ORIGINAL_STORY;
\* the value is never dropped
C25_InsertionFallback ==
    (/\ IsInjection(last_op)
     /\ ~IsBlank(last_value)
     /\ ~Contains(prev_text, PlaceholderOf(last_op))
     /\ ~Contains(prev_text, LabelOf(last_op)))
        => /\ error = "none"
           /\ InsertedAt(prev_text, prompt_text, NewBlock(last_op, last_value),
                         InsertionPoint(last_op, prev_text))

----------------------------------------------------------------------------
(* Claims about responses of the wrong shape                               *)

\* the response is a JSON text whose value does not have the shape that
\* stage k requires
WrongShaped(k, text) ==
    /\ loads(text, stack_frames).ok
    /\ ~StageContract(k, loads(text, stack_frames).val)

\* the stored outputs all pass the type check of their stage
StoredShapesHold == \A k \in StoredStages : StageContract(k, StoredOutput(k))

\* C26: a response that is valid JSON of the wrong shape ends the run on
\* either attempt: the run never goes on to the repair request of a stage
\* after a first response of that kind; a repair request either ends the run
\* or stores an output that passes the type check; no stored output ever
\* fails the type check of its stage; and a run that raised on a type check
\* returned nothing
C26_WrongShapeFatal ==
    /\ []((pipe_pc = "running" /\ attempt = "repair") =>
              ~WrongShaped(stage, first_response))
    /\ [][(attempt = "repair" /\ Len(requests') = Len(requests) + 1) =>
              \/ pipe_pc' = "raised"
              \/ StoredShapesHold']_vars
    /\ []StoredShapesHold
    /\ [](pipe_cause = "contract" =>
              /\ pipe_pc = "raised"
              /\ pipe_error = "ValueError"
              /\ returned = JNull)

----------------------------------------------------------------------------
(* Claims about the stats of the cleaner                                   *)

\* C27: the stats returned with the text are consistent and non-negative:
\* removed_chars is clean_chars_before_dedupe less clean_chars_after_dedupe,
\* and 0 <= clean_chars_after_dedupe <= clean_chars_before_dedupe, also for a
\* text that the fallback extraction produced
C27_StatsConsistent ==
    clean_pc = "cleaned" =>
        /\ clean_stats.removed_chars =
               clean_stats.clean_chars_before_dedupe
                   - clean_stats.clean_chars_after_dedupe
        /\ 0 <= clean_stats.clean_chars_after_dedupe
        /\ clean_stats.clean_chars_after_dedupe
               <= clean_stats.clean_chars_before_dedupe
        /\ clean_stats.removed_chars >= 0

----------------------------------------------------------------------------
(* Claims about what the phrase collapse deletes                           *)

\* xs can be had from ys by deleting elements
RECURSIVE IsSubsequence(_, _)
IsSubsequence(xs, ys) ==
    IF xs = <<>> THEN TRUE
    ELSE IF ys = <<>> THEN FALSE
    ELSE IF Head(xs) = Head(ys) THEN IsSubsequence(Tail(xs), Tail(ys))
    ELSE IsSubsequence(xs, Tail(ys))

\* one deletion of the scan at cursor scan_i with window period: the tokens up
\* to the end of the first block stay, n >= 1 blocks after it go, each equal
\* to the first after normalization, and what follows them stays; both lists
\* are cut alike
DeletesRepeats ==
    \E n \in 1..(Len(tokens) \div period) :
        /\ scan_i + (n + 1) * period <= Len(tokens)
        /\ tokens' = Take(tokens, scan_i + period)
                         \o Drop(tokens, scan_i + (n + 1) * period)
        /\ norm_tokens' = Take(norm_tokens, scan_i + period)
                              \o Drop(norm_tokens, scan_i + (n + 1) * period)
        /\ \A m \in 1..n :
               SameBlock(norm_tokens, scan_i, scan_i + m * period, period)

\* C28: the phrase collapse only deletes: at every step the token list is a
\* subsequence of the tokens of the input, in their spelling and order, and
\* has the length of the normalized list, which holds the normalized form of
\* each token; every step that changes the lists keeps the first block of a
\* run and deletes the blocks that repeat it; and the tokens of the returned
\* text are a subsequence of the tokens of the input
C28_OnlyDeletes ==
    /\ [](collapse_pc \in {"for", "while"} =>
              /\ Len(tokens) = Len(norm_tokens)
              /\ \A k \in 1..Len(tokens) : norm_tokens[k] = normalize_token(tokens[k])
              /\ IsSubsequence(tokens, split(phrase_text)))
    /\ [][(collapse_pc = "while" /\ <<tokens, norm_tokens>>' # <<tokens, norm_tokens>>)
              => DeletesRepeats]_vars
    /\ [][(collapse_pc # "while") =>
              (collapse_pc = "call" \/ UNCHANGED <<tokens, norm_tokens>>)]_vars
    /\ [](collapse_pc = "returned" =>
              IsSubsequence(split(collapse_result), split(phrase_text)))

\* a call that returned fewer tokens than it was given, the kept ones holding
\* a capitalized spelling
C28_Witness ==
    /\ collapse_pc = "returned"
    /\ Len(split(collapse_result)) < Len(split(phrase_text))
    /\ Len(split(collapse_result)) >= MIN_PERIOD
    /\ \E k \in 1..Len(tokens) : tokens[k] # norm_tokens[k]
    /\ split(collapse_result) = tokens

----------------------------------------------------------------------------
(* Specification: the call of collapse_consecutive_repeated_phrases keeps   *)
(* running: a loop iteration that can be taken is taken                     *)

\* the longest text of a call whose whole run is followed, in words
MaxFairTokens == 8

InitCollapseFair ==
    /\ InitCollapse
    /\ Len(split(phrase_text)) <= MaxFairTokens

SpecCollapseFair == InitCollapseFair /\ [][NextCollapse]_vars /\ WF_vars(NextCollapse)

\* the progress of one iteration of the while loop: the cursor moves on by
\* one over an unchanged list, or stays while the list gets shorter
ScanAdvances ==
    \/ /\ scan_i' = scan_i + 1
       /\ Len(tokens') = Len(tokens)
    \/ /\ scan_i' = scan_i
       /\ Len(tokens') < Len(tokens)

\* C29: the phrase collapse terminates: every call returns; an iteration of
\* the while loop that stays in the loop either moves the cursor on by one
\* and leaves the token list alone, or stays at its position and has made the
\* token list shorter; the cursor never passes the end of the list, and the
\* window only goes down
C29_CollapseTerminates ==
    /\ <>(collapse_pc = "returned")
    /\ [][(collapse_pc = "while" /\ collapse_pc' = "while") => ScanAdvances]_vars
    /\ [][period' <= period \/ collapse_pc = "call"]_vars
    /\ [](collapse_pc = "while" => scan_i <= Len(tokens))

\* a call that returned after its scan had deleted a repeat and gone through
\* more than one window
C29_Witness ==
    /\ collapse_pc = "returned"
    /\ Len(split(phrase_text)) = MaxFairTokens
    /\ Len(tokens) < MaxFairTokens
    /\ period < MIN_PERIOD

----------------------------------------------------------------------------
(* Claims about the cache of fetch_and_clean_subtitles                     *)

\* the step ends a call of session s for the video: a call with a URL that
\* holds no video id ends in the step that makes it
CallEnds(s) == fetch_pc[s] # "idle" /\ fetch_pc'[s] = "idle"

\* the call that ends returned the texts of the last call that had returned
\* when it began, and did not ask YouTube
ServedFromCache(s) ==
    /\ ~fetched'[s]
    /\ fetch_returned'[s].kind = "tuple"
    /\ fetch_returned'[s].raw_vtt = known_success[s].raw_vtt
    /\ fetch_returned'[s].clean_text = known_success[s].clean_text

\* the call that ends asked YouTube and, when it returned, both cache files
\* hold what it returned
Refreshed(s) ==
    /\ fetched'[s]
    /\ fetch_returned'[s].kind = "tuple" =>
           /\ cache_raw' = File(fetch_returned'[s].raw_vtt)
           /\ cache_clean' = File(fetch_returned'[s].clean_text)

\* clean.txt holds what vtt_to_clean_text makes of raw.vtt
CacheCoherent ==
    /\ Decodable(cache_raw.text)
    /\ cache_clean.text = CleanedTracks[cache_raw.text].text

\* C30: the cache reads through, over any sequence of calls for one video:
\* once a call has returned, every later call with use_cache=True asks
\* YouTube for nothing and returns the same raw track and clean text,
\* whatever language mode and preference it names; a call with
\* use_cache=False always asks YouTube and leaves in both cache files what it
\* returns; and when both files exist after a call has returned and no other
\* call is running, clean.txt holds the cleaned text of raw.vtt
C30_CacheReadThrough ==
    /\ [][\A s \in Sessions :
              (CallEnds(s) /\ fetch_call[s].use_cache /\ known_success[s].kind = "tuple")
                  => ServedFromCache(s)]_vars
    /\ [][\A s \in Sessions :
              (CallEnds(s) /\ ~fetch_call[s].use_cache) => Refreshed(s)]_vars
    /\ [][\A s \in Sessions :
              (/\ CallEnds(s)
               /\ fetch_returned'[s].kind = "tuple"
               /\ \A t \in Sessions : fetch_pc'[t] = "idle"
               /\ cache_raw'.exists
               /\ cache_clean'.exists) => CacheCoherent']_vars

====
